---- MODULE Spec2Model ----
(***************************************************************************)
(* Model of the giskit OGC-Features download engine:                       *)
(*   - OGCFeaturesProtocol._download_collection_with_grid (grid walking),  *)
(*   - OGCFeaturesProtocol._download_collection (pagination),              *)
(*   - OGCFeaturesProtocol.get_features (multi-collection download),       *)
(*   - cityjson vertex decoding,                                           *)
(*   - quirks.get_service_quirks (quirk resolution),                      *)
(*   - OGCFeaturesProtocol._apply_temporal_filter and request building.    *)
(* A GeoDataFrame is a sequence of rows; a row is a record whose DOMAIN is *)
(* the set of its property keys.                                           *)
(***************************************************************************)
EXTENDS Integers, Sequences, FiniteSets, TLC

VARIABLES
    gin,            \* grid walk: the arguments of _download_collection_with_grid
    gpc,            \* grid walk: "batch" (awaiting gather) or "done"
    batch_start,    \* grid walk: loop variable of the batch loop (0-based)
    task,           \* grid walk: one download_cell task per cell
    seen_ids,       \* grid walk: set of identificatie values already merged
    all_gdfs,       \* grid walk: rows appended so far (concatenation order)
    total_features, \* grid walk: running total
    gret,           \* grid walk: the returned frame
    glog,           \* grid walk: the "Cell i: Failed - error" lines printed
    pin,            \* pagination: the arguments of _download_collection and the server's format
    ppc,            \* pagination: "await" (a request is in flight), "done", "raised" or "idle"
    p_requests,     \* pagination: the requests sent so far, in order
    p_pages,        \* pagination: the pages received so far, in order
    page_gdfs,      \* pagination: all_gdfs, the rows parsed so far
    page_total,     \* pagination: total_features
    is_cityjson,    \* pagination: format determined from the first response
    pret,           \* pagination: the returned frame, or the error raised
    fin,            \* get_features: its arguments and the format the server answers "pand" in
    fpc,            \* get_features: "loop" (over the collections), "done" or "idle"
    f_idx,          \* get_features: position of the loop over layers
    f_gdfs,         \* get_features: all_gdfs, the frames collected so far, concatenated
    flog,           \* get_features: the "Warning: Failed to download" lines printed
    fret,           \* get_features: the returned frame
    f_out,          \* get_features: what each collection's download ended with
    KNOWN_QUIRKS,   \* quirks: the registry built when the module is imported
    q_ret,          \* quirks: the last lookup, its arguments and its result
    q_app,          \* quirks: the last application of a quirk set to a request
    t_gdf,          \* temporal filter: the frame a caller holds
    t_ret,          \* temporal filter: the last call on t_gdf, its arguments and result
    t_re,           \* temporal filter: the same call on a reordering of t_gdf
    d_page,         \* decoder: the page (a dict) a caller holds
    d_lod,          \* decoder: the lod argument
    d_out,          \* decoder: the calls of cityjson_to_geodataframe made on d_page
    usage,          \* monitor: QuirksMonitor._usage, applied_count and timestamps per key
    enabled,        \* monitor: QuirksMonitor._enabled
    monitor_calls,  \* monitor: the calls made on the monitor, in order
    services,       \* provider: MultiProtocolProvider.services
    protocols,      \* provider: Provider._protocols, the handlers registered by name
    downloads       \* provider: the download_dataset calls made, in order

gvars == <<gin, gpc, batch_start, task, seen_ids, all_gdfs, total_features, gret, glog>>
pvars == <<pin, ppc, p_requests, p_pages, page_gdfs, page_total, is_cityjson, pret>>
fvars == <<fin, fpc, f_idx, f_gdfs, flog, fret, f_out>>
qvars == <<KNOWN_QUIRKS, q_ret, q_app>>
tvars == <<t_gdf, t_ret, t_re>>

dvars == <<d_page, d_lod, d_out>>
mvars == <<usage, enabled, monitor_calls>>
svars == <<services, protocols, downloads>>
xvars == <<dvars, mvars, svars>>

vars == <<gvars, pvars, fvars, qvars, tvars, xvars>>

----------------------------------------------------------------------------
(* Bounds of the model *)
MaxCells == 3
MaxPages == 3
MaxRows == 3
MaxDecodes == 2
MaxCalls == 4
MaxDownloads == 3

(* Program constants *)
max_retries == 3
max_features_per_request == 10000
default_page_limit == 1000

ConcurrencyChoices == {1, 2}
LimitChoices == {0, 1, 2}          \* 0 stands for limit=None (both are falsy)
CollectionIds == {"pand", "connections"}

Min(a, b) == IF a <= b THEN a ELSE b

----------------------------------------------------------------------------
(* Frames *)

NaN == "NaN"

\* gdf.columns: the union of the rows' property keys
Columns(gdf) == UNION {DOMAIN gdf[i] : i \in 1..Len(gdf)}

Val(row, col) == IF col \in DOMAIN row THEN row[col] ELSE NaN

\* the rows of s at the indices K, in order
Pick(s, K) ==
    LET F[i \in 0..Len(s)] ==
            IF i = 0 THEN <<>>
            ELSE IF i \in K THEN Append(F[i - 1], s[i]) ELSE F[i - 1]
    IN F[Len(s)]

\* gdf.drop_duplicates(subset=col, keep="first"); missing values compare equal
DropDuplicates(gdf, col) ==
    Pick(gdf, {i \in 1..Len(gdf) :
                 ~ \E j \in 1..(i - 1) : Val(gdf[j], col) = Val(gdf[i], col)})

\* gdf.sort_values(col, ascending=False): missing values last, ties in input order
SortDesc(gdf, col) ==
    LET n == Len(gdf)
        Before(i, j) ==
            IF col \notin DOMAIN gdf[i] THEN col \notin DOMAIN gdf[j] /\ i < j
            ELSE IF col \notin DOMAIN gdf[j] THEN TRUE
            ELSE gdf[i][col] > gdf[j][col] \/ (gdf[i][col] = gdf[j][col] /\ i < j)
        Pos(i) == 1 + Cardinality({j \in 1..n : Before(j, i)})
    IN [p \in 1..n |-> gdf[CHOOSE i \in 1..n : Pos(i) = p]]

\* gdf.head(n) / gdf.iloc[:n]
HeadRows(gdf, n) == SubSeq(gdf, 1, Min(n, Len(gdf)))

----------------------------------------------------------------------------
(* Temporal filtering.  A date value is a positive integer, the empty      *)
(* string "" of a date column is 0, and a row without the key is NaN.      *)
(* A strategy is [s |-> "latest" | "active" | "all" | "date" | "baddate" | *)
(* "other", d |-> the date of an ISO date string].                         *)

T_latest == [s |-> "latest", d |-> 0]
T_all == [s |-> "all", d |-> 0]

\* col is null, "" or later than t
NullEmptyOrAfter(row, col, t) ==
    col \notin DOMAIN row \/ row[col] = 0 \/ row[col] > t

LatestFilter_KeepEnded(gdf, cols, id_field) ==
    IF "tijdstip_registratie" \in cols
    THEN DropDuplicates(SortDesc(gdf, "tijdstip_registratie"), id_field)
    ELSE IF "version" \in cols
    THEN DropDuplicates(SortDesc(gdf, "version"), id_field)
    ELSE DropDuplicates(gdf, id_field)

\* the 'latest' branch; cols are the columns of the frame
LatestFilter(gdf, cols, id_field) ==
    LET g1 == IF "eind_registratie" \in cols
              THEN Pick(gdf, {i \in 1..Len(gdf) :
                                "eind_registratie" \notin DOMAIN gdf[i]
                                \/ gdf[i]["eind_registratie"] = 0})
              ELSE gdf
    IN IF "tijdstip_registratie" \in cols
       THEN DropDuplicates(SortDesc(g1, "tijdstip_registratie"), id_field)
       ELSE IF "version" \in cols
       THEN DropDuplicates(SortDesc(g1, "version"), id_field)
       ELSE DropDuplicates(g1, id_field)

\* the column used for deduplication; "None" when the frame has neither
IdFieldOf_Default(cols) == IF "lokaal_id" \in cols THEN "lokaal_id" ELSE "identificatie"

IdFieldOf(cols) ==
    IF "lokaal_id" \in cols THEN "lokaal_id"
    ELSE IF "identificatie" \in cols THEN "identificatie"
    ELSE "None"

ActiveFilter_KeepAll(gdf, cols, now) == gdf

\* the 'active' branch before it falls through to 'latest'
ActiveFilter(gdf, cols, now) ==
    IF "termination_date" \in cols
    THEN Pick(gdf, {i \in 1..Len(gdf) : NullEmptyOrAfter(gdf[i], "termination_date", now)})
    ELSE gdf

\* the branch of an ISO date d
DateFilter(gdf, cols, id_field, d) ==
    LET g1 == IF "tijdstip_registratie" \in cols
              THEN Pick(gdf, {i \in 1..Len(gdf) :
                                /\ "tijdstip_registratie" \in DOMAIN gdf[i]
                                /\ gdf[i]["tijdstip_registratie"] <= d})
              ELSE gdf
        g2 == IF "termination_date" \in cols
              THEN Pick(g1, {i \in 1..Len(g1) :
                                NullEmptyOrAfter(g1[i], "termination_date", d)})
              ELSE g1
    IN IF "tijdstip_registratie" \in cols
       THEN DropDuplicates(SortDesc(g2, "tijdstip_registratie"), id_field)
       ELSE g2

ApplyTemporalFilter(gdf, temporal, now) ==
    LET cols == Columns(gdf)
        id_field == IdFieldOf(cols)
    IN IF temporal.s = "all" \/ Len(gdf) = 0 THEN gdf
       ELSE IF id_field = "None" THEN gdf
       ELSE IF temporal.s = "active"
       THEN LatestFilter(ActiveFilter(gdf, cols, now), cols, id_field)
       ELSE IF temporal.s = "latest" THEN LatestFilter(gdf, cols, id_field)
       ELSE IF temporal.s = "date" THEN DateFilter(gdf, cols, id_field, temporal.d)
       ELSE IF temporal.s = "baddate" THEN LatestFilter(gdf, cols, id_field)
       ELSE gdf

\* the line printed when the date of the strategy cannot be parsed
TemporalWarning(gdf, temporal) ==
    LET cols == Columns(gdf)
    IN IF /\ temporal.s = "baddate"
          /\ Len(gdf) # 0
          /\ ("lokaal_id" \in cols \/ "identificatie" \in cols)
       THEN <<"Warning: Invalid temporal date, using 'latest' instead">>
       ELSE <<>>

\* records a registry may return; dates are 1 (2023-01-01), 2 (2023-03-01),
\* 3 (2023-06-01), 4 (2024-01-01), 6 (later than every "now" below)
RA == [identificatie |-> "X1", tijdstip_registratie |-> 1, termination_date |-> 3]
RB == [identificatie |-> "X1", tijdstip_registratie |-> 3, termination_date |-> 0]
RC == [identificatie |-> "X1", tijdstip_registratie |-> 4, termination_date |-> 0]
TemporalRows ==
    {RA, RB, RC,
     [identificatie |-> "X1", tijdstip_registratie |-> 4, termination_date |-> 0, naam |-> "c2"],
     [identificatie |-> "X1", tijdstip_registratie |-> 4, eind_registratie |-> 4],
     [identificatie |-> "X2", tijdstip_registratie |-> 2, termination_date |-> 6],
     [identificatie |-> "X2", eind_registratie |-> 0, version |-> 2],
     [identificatie |-> "X2", version |-> 1],
     [identificatie |-> "X1"],
     [identificatie |-> "X1", naam |-> "k2"],
     [lokaal_id |-> "L1", identificatie |-> "X2", tijdstip_registratie |-> 2],
     [naam |-> "n", tijdstip_registratie |-> 1, termination_date |-> 1]}

\* the frames of at most MaxRows records
TemporalFrames == UNION {[1..n -> TemporalRows] : n \in 0..MaxRows}

\* the strategies: latest, active, all, an ISO date, a string with two dashes
\* that is no date, a string without two dashes
StrategyChoices ==
    {T_latest, T_all, [s |-> "active", d |-> 0], [s |-> "date", d |-> 2],
     [s |-> "baddate", d |-> 0], [s |-> "other", d |-> 0]}

\* datetime.now()
NowChoices == {5}

TemporalInit ==
    /\ t_gdf \in TemporalFrames
    /\ t_ret = [op |-> "none"]
    /\ t_re = [op |-> "none"]

TemporalIdle ==
    /\ t_gdf = <<>>
    /\ t_ret = [op |-> "idle"]
    /\ t_re = [op |-> "idle"]

\* _apply_temporal_filter(gdf, temporal)
TemporalCall ==
    /\ t_ret.op = "none"
    /\ \E temporal \in StrategyChoices, now \in NowChoices :
        t_ret' = [op |-> "call", temporal |-> temporal, now |-> now,
                  ret |-> ApplyTemporalFilter(t_gdf, temporal, now),
                  log |-> TemporalWarning(t_gdf, temporal)]
    /\ UNCHANGED <<t_gdf, t_re, gvars, pvars, fvars, qvars, xvars>>

\* the frame with the rows at i and j exchanged
SwapRows(gdf, i, j) ==
    [k \in 1..Len(gdf) |-> IF k = i THEN gdf[j] ELSE IF k = j THEN gdf[i] ELSE gdf[k]]

\* the frame with its first row moved to the end
RotateRows(gdf) == IF gdf = <<>> THEN gdf ELSE Tail(gdf) \o <<Head(gdf)>>

\* the same call on the same records in another order: the first two rows
\* exchanged, or the first row moved to the end
TemporalCallReordered ==
    /\ t_ret.op = "call"
    /\ t_re.op = "none"
    /\ \E gdf \in {SwapRows(t_gdf, 1, j) : j \in 1..Min(2, Len(t_gdf))} \cup {RotateRows(t_gdf)} :
        /\ gdf # t_gdf
        /\ t_re' = [op |-> "call", gdf |-> gdf,
                    ret |-> ApplyTemporalFilter(gdf, t_ret.temporal, t_ret.now),
                    log |-> TemporalWarning(gdf, t_ret.temporal)]
    /\ UNCHANGED <<t_gdf, t_ret, gvars, pvars, fvars, qvars, xvars>>

TemporalNext ==
    \/ TemporalCall
    \/ TemporalCallReordered

----------------------------------------------------------------------------
(* Quirk resolution: quirks.py and config/loader.py.  A ProtocolQuirks       *)
(* instance is [values |-> field -> value, set |-> the fields passed to the  *)
(* constructor (pydantic's model_fields_set)]; None is 0 or "None", a dict   *)
(* is a function on its keys, a URL is a sequence of text fragments.         *)

QuirkFields ==
    {"requires_trailing_slash", "require_format_param", "format_param_name",
     "format_param_value", "max_features_limit", "custom_timeout",
     "bbox_crs", "format_is_cityjson", "custom_headers"}

\* the fields QuirkDefinition has and to_protocol_quirks passes on
LoaderFields == QuirkFields \ {"custom_headers"}

\* the default of a field
Default(f) ==
    CASE f = "max_features_limit" -> 0
      [] f = "custom_timeout" -> 0
      [] f = "format_param_name" -> "f"
      [] f = "format_param_value" -> "json"
      [] f = "bbox_crs" -> "None"
      [] f = "custom_headers" -> <<>>
      [] OTHER -> FALSE

\* ProtocolQuirks(**kwargs)
ProtocolQuirks(kwargs) ==
    [values |-> [f \in QuirkFields |-> IF f \in DOMAIN kwargs THEN kwargs[f] ELSE Default(f)],
     set |-> DOMAIN kwargs]

NoKwargs == [f \in {} |-> FALSE]

\* model_dump()
ModelDump(quirks) == quirks.values

\* model_dump(exclude_unset=True)
ModelDumpExcludeUnset(quirks) == [f \in quirks.set |-> quirks.values[f]]

\* base_dict.update(other)
DictUpdate(base_dict, other) ==
    [f \in DOMAIN base_dict \cup DOMAIN other |->
        IF f \in DOMAIN other THEN other[f] ELSE base_dict[f]]

\* QuirkDefinition(**quirk_data).to_protocol_quirks(): every field is passed on
ToProtocolQuirks(quirk_data) ==
    ProtocolQuirks([f \in LoaderFields |->
                        IF f \in DOMAIN quirk_data THEN quirk_data[f] ELSE Default(f)])

LEGACY_KNOWN_QUIRKS ==
    [k \in {"pdok", "cityjson", "bag3d"} |->
        CASE k = "pdok" ->
                [p \in {"ogc-features"} |->
                    ProtocolQuirks([requires_trailing_slash |-> TRUE,
                                    require_format_param |-> TRUE,
                                    format_param_name |-> "f",
                                    format_param_value |-> "json"])]
          [] k = "cityjson" ->
                [p \in {"format"} |-> ProtocolQuirks([format_is_cityjson |-> TRUE,
                                                      custom_timeout |-> 60])]
          [] OTHER ->
                [p \in {"ogc-features"} |-> ProtocolQuirks([format_is_cityjson |-> TRUE,
                                                            custom_timeout |-> 60])]]

\* quirk_id.split('-', 1)
SplitFirstDash(quirk_id) ==
    CASE quirk_id = "pdok-ogc-features" -> <<"pdok", "ogc-features">>
      [] quirk_id = "cityjson-format" -> <<"cityjson", "format">>
      [] OTHER -> <<quirk_id, "default">>

\* load_quirks: providers.yml, then services.yml; the fallback when nothing
\* was loaded or a file could not be read
LoadQuirks(config, fallback) ==
    LET from_providers == {<<SplitFirstDash(q)[1], SplitFirstDash(q)[2], config.providers[q]>> :
                                q \in DOMAIN config.providers}
        from_services == UNION {{<<sid, p, config.services[sid][p]>> :
                                    p \in DOMAIN config.services[sid]} :
                                sid \in DOMAIN config.services}
        entries == from_providers \cup from_services
        Data(k, p) == IF \E e \in from_services : e[1] = k /\ e[2] = p
                      THEN (CHOOSE e \in from_services : e[1] = k /\ e[2] = p)[3]
                      ELSE (CHOOSE e \in from_providers : e[1] = k /\ e[2] = p)[3]
    IN IF config.broken \/ entries = {} THEN fallback
       ELSE [k \in {e[1] : e \in entries} |->
                [p \in {e[2] : e \in {x \in entries : x[1] = k}} |->
                    ToProtocolQuirks(Data(k, p))]]

GetQuirks_Subscript(known, provider, protocol) ==
    IF provider \in DOMAIN known /\ protocol \in DOMAIN known[provider]
    THEN known[provider][protocol]
    ELSE [raised |-> "KeyError"]

\* KNOWN_QUIRKS.get(provider, {}).get(protocol, ProtocolQuirks())
GetQuirks(known, provider, protocol) ==
    IF provider \in DOMAIN known /\ protocol \in DOMAIN known[provider]
    THEN known[provider][protocol]
    ELSE ProtocolQuirks(NoKwargs)

\* the key under which get_service_quirks finds service quirks; "" when none
ServiceKey(known, provider, protocol, service) ==
    CASE provider = "pdok" /\ service = "bag3d"
            /\ "pdok-bag3d" \in DOMAIN known /\ protocol \in DOMAIN known["pdok-bag3d"]
            -> "pdok-bag3d"
      [] service \in DOMAIN known /\ protocol \in DOMAIN known[service] -> service
      [] OTHER -> ""

\* ProtocolQuirks(**base_dict) after base_dict.update(model_dump(exclude_unset=True))
Overlay(base_quirks, service_quirks) ==
    ProtocolQuirks(DictUpdate(ModelDump(base_quirks), ModelDumpExcludeUnset(service_quirks)))

\* a value is a ProtocolQuirks instance (and not an exception that was raised)
IsProtocolQuirks(r) == "values" \in DOMAIN r

\* an exception raised by get_quirks propagates
GetServiceQuirks(known, provider, protocol, service) ==
    LET base_quirks == GetQuirks(known, provider, protocol)
        key == ServiceKey(known, provider, protocol, service)
    IN IF ~ IsProtocolQuirks(base_quirks) THEN base_quirks
       ELSE IF key # "" THEN Overlay(base_quirks, known[key][protocol]) ELSE base_quirks

\* url.endswith("/")
EndsWithSlash(url) == url # <<>> /\ url[Len(url)] = "/"

ApplyToUrl_Always(quirks, url) == Append(url, "/")

\* apply_to_url
ApplyToUrl(quirks, url) ==
    IF quirks.values.requires_trailing_slash /\ ~ EndsWithSlash(url)
    THEN Append(url, "/")
    ELSE url

\* self.base_url of an OGCFeaturesProtocol constructed with the quirk set
ProtocolBaseUrl(quirks, base_url) == ApplyToUrl(quirks, base_url)

ApplyToParams_InPlace(quirks, params) ==
    LET v == quirks.values
        p1 == IF v.require_format_param
              THEN DictUpdate(params, [k \in {v.format_param_name} |-> v.format_param_value])
              ELSE params
        p2 == IF v.max_features_limit # 0 /\ "limit" \in DOMAIN p1
              THEN [p1 EXCEPT !["limit"] = Min(@, v.max_features_limit)]
              ELSE p1
    IN [ret |-> p2, caller |-> p2]

\* apply_to_params: ret is the returned map, caller the map that was passed
\* in as it is after the call (the function works on params.copy())
ApplyToParams(quirks, params) ==
    LET v == quirks.values
        p1 == IF v.require_format_param
              THEN DictUpdate(params, [k \in {v.format_param_name} |-> v.format_param_value])
              ELSE params
        p2 == IF v.max_features_limit # 0 /\ "limit" \in DOMAIN p1
              THEN [p1 EXCEPT !["limit"] = Min(@, v.max_features_limit)]
              ELSE p1
    IN [ret |-> p2, caller |-> params]

\* apply_to_headers
ApplyToHeaders(quirks, headers) == DictUpdate(headers, quirks.values.custom_headers)

\* get_timeout
GetTimeout(quirks, default) ==
    IF quirks.values.custom_timeout # 0 THEN quirks.values.custom_timeout ELSE default

----------------------------------------------------------------------------
(* Request building.  A bbox is <<minx, miny, maxx, maxy>>; a CRS is its    *)
(* name; the text of the bbox parameter is the sequence of its four numbers *)
(* and a URI is a sequence of text fragments.                               *)

\* bbox_crs.split(':')[1]
CrsCode(crs) ==
    CASE crs = "EPSG:28992" -> "28992"
      [] crs = "EPSG:3857" -> "3857"
      [] crs = "EPSG:25832" -> "25832"
      [] OTHER -> "4326"

\* Transformer.from_crs("EPSG:4326", crs, always_xy=True).transform(x, y)
TransformPoint(crs, x, y) ==
    CASE crs = "EPSG:28992" -> <<x * 100 + 155000, y * 100 + 463000>>
      [] crs = "EPSG:3857" -> <<x * 150, y * 150>>
      [] OTHER -> <<x * 100 + 500000, y * 100>>

\* the quirk asks for a bbox in another CRS than EPSG:4326
BboxIsTransformed(quirks) ==
    quirks.values.bbox_crs # "None" /\ quirks.values.bbox_crs # "EPSG:4326"

\* request_bbox of get_features
RequestBbox(quirks, bbox) ==
    IF BboxIsTransformed(quirks)
    THEN LET lo == TransformPoint(quirks.values.bbox_crs, bbox[1], bbox[2])
             hi == TransformPoint(quirks.values.bbox_crs, bbox[3], bbox[4])
         IN <<lo[1], lo[2], hi[1], hi[2]>>
    ELSE bbox

\* bbox_crs_str of get_features
BboxCrsStr(quirks) ==
    IF BboxIsTransformed(quirks) THEN quirks.values.bbox_crs ELSE "EPSG:4326"

UseGridWalking_AtLeast(quirks, request_bbox, bbox_crs_str) ==
    /\ quirks.values.max_features_limit # 0
    /\ bbox_crs_str \in {"EPSG:28992", "EPSG:3857"}
    /\ (request_bbox[3] - request_bbox[1]) * (request_bbox[4] - request_bbox[2]) >= 500 * 500

\* use_grid_walking of get_features
UseGridWalking(quirks, request_bbox, bbox_crs_str) ==
    /\ quirks.values.max_features_limit # 0
    /\ bbox_crs_str \in {"EPSG:28992", "EPSG:3857"}
    /\ (request_bbox[3] - request_bbox[1]) * (request_bbox[4] - request_bbox[2]) > 500 * 500

CRS84 == <<"http://www.opengis.net/def/crs/OGC/1.3/CRS84">>

EpsgUri(crs) == <<"http://www.opengis.net/def/crs/EPSG/0/", CrsCode(crs)>>

BboxCrsParam_AlwaysCRS84(quirks) == CRS84

\* the value of the bbox-crs parameter
BboxCrsParam(quirks) ==
    IF BboxIsTransformed(quirks) THEN EpsgUri(quirks.values.bbox_crs) ELSE CRS84

\* page_limit of _download_collection
PageLimit(quirks, limit) ==
    IF quirks.values.max_features_limit # 0
    THEN quirks.values.max_features_limit
    ELSE Min(IF limit # 0 THEN limit ELSE max_features_per_request, default_page_limit)

\* the query parameters of the first request of _download_collection;
\* omit is the quirk omit_bbox_crs_param
BuildParams(quirks, omit, bbox, limit, kwargs) ==
    LET p0 == DictUpdate([k \in {"bbox", "limit"} |->
                             IF k = "bbox" THEN bbox ELSE PageLimit(quirks, limit)],
                         kwargs)
        p1 == IF ~ omit
              THEN DictUpdate(p0, [k \in {"bbox-crs"} |-> BboxCrsParam(quirks)])
              ELSE p0
    IN ApplyToParams(quirks, p1).ret

----------------------------------------------------------------------------
(* Errors.  str(e) is a sequence of text fragments; Occurs(kw, text) is    *)
(* `kw in text.lower()` for the fragments this model uses.                 *)

Causes == {"504", "400", "json"}

\* httpx's message of raise_for_status()
HttpStatusText(cause) ==
    CASE cause = "504" -> "Server error '504 Gateway Timeout' for url"
      [] OTHER -> "Client error '400 Bad Request' for url"

\* str(e) of what _download_collection raises: an httpx.HTTPError is wrapped
\* into OGCFeaturesError, a JSON decoding error propagates as it is
DownloadErrorMsg(collection_id, cause) ==
    IF cause = "json" THEN <<"Expecting value: line 1 column 1 (char 0)">>
    ELSE <<"Failed to download collection ", collection_id, ": ", HttpStatusText(cause)>>

Occurs(kw, text) ==
    <<kw, text>> \in {<<"504", "Server error '504 Gateway Timeout' for url">>,
                      <<"timeout", "Server error '504 Gateway Timeout' for url">>,
                      <<"connection", "connections">>}

RetryKeywords == {"timeout", "504", "503", "connection", "temporary"}

IsRetryable(error_msg) ==
    \E kw \in RetryKeywords : \E i \in 1..Len(error_msg) : Occurs(kw, error_msg[i])

----------------------------------------------------------------------------
(* Grid walking: _download_collection_with_grid *)

Fa == [identificatie |-> "a"]
Fb == [identificatie |-> "b"]
Fn == [naam |-> "x"]

\* What the server may answer for a cell: the rows it holds for the cell (all
\* pages concatenated) and the errors it may raise.  Two families of servers:
\* one that varies the rows, one that varies the errors.
\* two registrations of the object "a"
Fa1 == [identificatie |-> "a", tijdstip_registratie |-> 1]
Fa2 == [identificatie |-> "a", tijdstip_registratie |-> 2]

\* a server whose cells hold registrations of one object
VersionedProfile == [rows |-> {<<Fa1>>, <<Fa2>>, <<Fa1, Fa2>>}, causes |-> {"400"}]

ServerProfiles ==
    {[rows |-> {<<>>, <<Fa>>, <<Fb, Fa>>, <<Fa, Fa>>, <<Fn>>}, causes |-> {"400"}],
     [rows |-> {<<>>, <<Fa>>}, causes |-> Causes],
     VersionedProfile}

\* rows tagged with the cell they were downloaded for
Tag(rows, c) == [i \in 1..Len(rows) |-> rows[i] @@ [src |-> c]]

\* a task: its position, its attempt, what the server holds for the cell
\* (served), what download_cell returns (gdf, error) and the request it sent
NoTask ==
    [st |-> "none", attempt |-> 0, served |-> <<>>, gdf |-> <<>>, error |-> <<>>,
     params |-> <<>>]
ReadyTask ==
    [st |-> "ready", attempt |-> 0, served |-> <<>>, gdf |-> <<>>, error |-> <<>>,
     params |-> <<>>]

\* the quirk set of a service that is walked by grid
GridQuirks == ProtocolQuirks([max_features_limit |-> 100, bbox_crs |-> "EPSG:28992"])

\* the bbox of cell c of subdivide_bbox(bbox, grid_cell_size, crs=bbox_crs)
CellBbox(bbox, c) == [of |-> bbox, cell |-> c]

BatchEnd == Min(batch_start + gin.max_concurrent, gin.cells)
BatchCells == (batch_start + 1)..BatchEnd

\* the end of _download_collection: temporal filter, then the limit
DownloadResult(combined, limit, temporal) ==
    LET filtered == ApplyTemporalFilter(combined, temporal, 0)
    IN IF limit # 0 /\ Len(filtered) > limit THEN HeadRows(filtered, limit) ELSE filtered

\* the frame _download_collection(limit=None) returns for a cell
CellFrame(rows, c, temporal) == DownloadResult(Tag(rows, c), 0, temporal)

MergeCell_NoDedup(acc, c, t) ==
    IF t.error # <<>>
    THEN [acc EXCEPT !.log = Append(@, [cell |-> c, error |-> t.error])]
    ELSE IF Len(t.gdf) = 0 THEN acc
    ELSE [acc EXCEPT !.rows = @ \o t.gdf, !.total = @ + Len(t.gdf)]

\* one iteration of the loop over the batch results
MergeCell(acc, c, t) ==
    IF t.error # <<>>
    THEN [acc EXCEPT !.log = Append(@, [cell |-> c, error |-> t.error])]
    ELSE IF Len(t.gdf) = 0 THEN acc
    ELSE LET has_id == "identificatie" \in Columns(t.gdf)
             g == IF has_id
                  THEN Pick(t.gdf, {i \in 1..Len(t.gdf) :
                                        Val(t.gdf[i], "identificatie") \notin acc.seen})
                  ELSE t.gdf
             seen2 == IF has_id
                      THEN acc.seen \cup {Val(g[i], "identificatie") : i \in 1..Len(g)}
                      ELSE acc.seen
         IN IF Len(g) > 0
            THEN [acc EXCEPT !.seen = seen2, !.rows = @ \o g, !.total = @ + Len(g)]
            ELSE [acc EXCEPT !.seen = seen2]

\* the loop over the results of the cells lo..hi, in task order
MergeBatch(acc0, lo, hi, tasks) ==
    LET F[c \in (lo - 1)..hi] ==
            IF c = lo - 1 THEN acc0 ELSE MergeCell(F[c - 1], c, tasks[c])
    IN F[hi]

\* combine all cells and apply the limit
Combine(rows, limit) ==
    IF limit # 0 /\ Len(rows) > limit THEN HeadRows(rows, limit) ELSE rows

LimitReached_Strict(limit, total) == limit # 0 /\ total > limit

\* the limit test after a batch
LimitReached(limit, total) == limit # 0 /\ total >= limit

GridInit ==
    \E n \in 1..MaxCells, m \in ConcurrencyChoices, l \in LimitChoices,
       t \in {T_latest, T_all}, coll \in CollectionIds, sp \in ServerProfiles :
        /\ sp.causes = Causes => l = 0 /\ t = T_latest
        /\ sp = VersionedProfile => l = 0 /\ t = T_latest
        /\ sp.causes # Causes => coll = "pand"
        /\ gin = [cells |-> n, max_concurrent |-> m, limit |-> l,
                  temporal |-> t, collection_id |-> coll, server |-> sp,
                  quirks |-> GridQuirks, omit_bbox_crs_param |-> TRUE,
                  bbox |-> RequestBbox(GridQuirks, <<0, 0, 6, 5>>)]
        /\ gpc = "batch"
        /\ batch_start = 0
        /\ task = [c \in 1..n |-> IF c <= Min(m, n) THEN ReadyTask ELSE NoTask]
        /\ seen_ids = {}
        /\ all_gdfs = <<>>
        /\ total_features = 0
        /\ gret = <<>>
        /\ glog = <<>>

\* a task starts and sends the request of its first attempt
CellSend(c) ==
    /\ gpc = "batch"
    /\ task[c].st = "ready"
    /\ task' = [task EXCEPT ![c].st = "inflight",
                             ![c].params = BuildParams(gin.quirks, gin.omit_bbox_crs_param,
                                                       CellBbox(gin.bbox, c), 0, NoKwargs)]
    /\ UNCHANGED <<gin, gpc, batch_start, seen_ids, all_gdfs, total_features, gret, glog>>
    /\ UNCHANGED <<pvars, fvars, qvars, tvars, xvars>>

\* _download_collection returns: the task returns (cell_idx, gdf, None)
CellReturn(c) ==
    /\ gpc = "batch"
    /\ task[c].st = "inflight"
    /\ \E rows \in gin.server.rows :
        task' = [task EXCEPT ![c].st = "settled", ![c].attempt = 0,
                             ![c].served = Tag(rows, c),
                             ![c].gdf = CellFrame(rows, c, gin.temporal)]
    /\ UNCHANGED <<gin, gpc, batch_start, seen_ids, all_gdfs, total_features, gret, glog>>
    /\ UNCHANGED <<pvars, fvars, qvars, tvars, xvars>>

\* retry after a failed attempt?
ShouldRetry_OffByOne(attempt, error_msg) ==
    attempt < max_retries - 2 /\ IsRetryable(error_msg)

ShouldRetry(attempt, error_msg) ==
    attempt < max_retries - 1 /\ IsRetryable(error_msg)

\* _download_collection raises: back off and retry, or return (cell_idx, None, error_msg)
CellRaise(c) ==
    /\ gpc = "batch"
    /\ task[c].st = "inflight"
    /\ \E cause \in gin.server.causes :
        LET error_msg == DownloadErrorMsg(gin.collection_id, cause)
        IN IF ShouldRetry(task[c].attempt, error_msg)
           THEN task' = [task EXCEPT ![c].st = "sleeping", ![c].error = error_msg]
           ELSE task' = [task EXCEPT ![c].st = "settled", ![c].error = error_msg]
    /\ UNCHANGED <<gin, gpc, batch_start, seen_ids, all_gdfs, total_features, gret, glog>>
    /\ UNCHANGED <<pvars, fvars, qvars, tvars, xvars>>

\* the backoff sleep ends: the next attempt sends its request
CellWake(c) ==
    /\ gpc = "batch"
    /\ task[c].st = "sleeping"
    /\ IF task[c].attempt + 1 < max_retries
       THEN task' = [task EXCEPT ![c].st = "inflight", ![c].attempt = @ + 1,
                                 ![c].error = <<>>]
       ELSE task' = [task EXCEPT ![c].st = "settled",
                                 ![c].error = <<"Max retries exceeded">>]
    /\ UNCHANGED <<gin, gpc, batch_start, seen_ids, all_gdfs, total_features, gret, glog>>
    /\ UNCHANGED <<pvars, fvars, qvars, tvars, xvars>>

GatherDone_Any(tasks, cells) == \E c \in cells : tasks[c].st = "settled"

\* asyncio.gather(*tasks) returns when every task of the batch has returned
GatherDone(tasks, cells) == \A c \in cells : tasks[c].st = "settled"

\* gather returns: merge the batch, check the limit, start the next batch or return
BatchJoin ==
    /\ gpc = "batch"
    /\ GatherDone(task, BatchCells)
    /\ LET acc == MergeBatch([seen |-> seen_ids, rows |-> all_gdfs,
                              total |-> total_features, log |-> glog],
                             batch_start + 1, BatchEnd, task)
           next_start == batch_start + gin.max_concurrent
       IN /\ seen_ids' = acc.seen
          /\ all_gdfs' = acc.rows
          /\ total_features' = acc.total
          /\ glog' = acc.log
          /\ IF LimitReached(gin.limit, acc.total) \/ next_start >= gin.cells
             THEN /\ gpc' = "done"
                  /\ gret' = Combine(acc.rows, gin.limit)
                  /\ UNCHANGED <<batch_start, task>>
             ELSE /\ batch_start' = next_start
                  /\ task' = [c \in 1..gin.cells |->
                                IF c > next_start
                                   /\ c <= Min(next_start + gin.max_concurrent, gin.cells)
                                THEN ReadyTask ELSE task[c]]
                  /\ UNCHANGED <<gpc, gret>>
    /\ UNCHANGED <<gin, pvars, fvars, qvars, tvars, xvars>>

GridIdle ==
    /\ gin = [cells |-> 0]
    /\ gpc = "idle"
    /\ batch_start = 0
    /\ task = <<>>
    /\ seen_ids = {}
    /\ all_gdfs = <<>>
    /\ total_features = 0
    /\ gret = <<>>
    /\ glog = <<>>

GridNext ==
    \/ \E c \in 1..MaxCells : c <= gin.cells /\ CellSend(c)
    \/ \E c \in 1..MaxCells : c <= gin.cells /\ CellReturn(c)
    \/ \E c \in 1..MaxCells : c <= gin.cells /\ CellRaise(c)
    \/ \E c \in 1..MaxCells : c <= gin.cells /\ CellWake(c)
    \/ BatchJoin

----------------------------------------------------------------------------
(* CityJSON decoding: cityjson.py.  A transform is a record that may have   *)
(* the keys scale and translate (None is the record without keys); a        *)
(* CityObjects dict is the sequence of its items in insertion order; vertex *)
(* indices are 0-based as in the payload.                                   *)

NoTransform == <<>>

HasTransform(transform) ==
    "scale" \in DOMAIN transform /\ "translate" \in DOMAIN transform

\* real = vertex * scale + translate, per component (x, y)
Coord2(v, transform) ==
    IF HasTransform(transform)
    THEN <<v[1] * transform.scale[1] + transform.translate[1],
           v[2] * transform.scale[2] + transform.translate[2]>>
    ELSE <<v[1], v[2]>>

\* real = vertex * scale + translate, per component (x, y, z)
Coord3(v, transform) ==
    IF HasTransform(transform)
    THEN <<v[1] * transform.scale[1] + transform.translate[1],
           v[2] * transform.scale[2] + transform.translate[2],
           IF Len(v) > 2 THEN v[3] * transform.scale[3] + transform.translate[3] ELSE 0>>
    ELSE <<v[1], v[2], IF Len(v) > 2 THEN v[3] ELSE 0>>

\* the coordinates of the ring's vertices whose index is within the array;
\* dims is "xy" for the footprint and "xyz" for the 3D surfaces
RingCoords(ring, vertices, transform, dims) ==
    CHOOSE coords \in {[k \in 1..Len(ok) |->
                            IF dims = "xy" THEN Coord2(vertices[ok[k] + 1], transform)
                            ELSE Coord3(vertices[ok[k] + 1], transform)] :
                        ok \in {Pick(ring, {k \in 1..Len(ring) : ring[k] < Len(vertices)})}} :
        TRUE

Flatten(ss) ==
    LET F[i \in 0..Len(ss)] == IF i = 0 THEN <<>> ELSE F[i - 1] \o ss[i]
    IN F[Len(ss)]

NoGeometry == [kind |-> "none"]
GeometryError == [kind |-> "raise"]

\* shapely's Polygon(shell) raises for fewer than 3 points
PolygonOk(ring_coords) == Len(ring_coords) >= 3

\* the outer rings of the non-empty surfaces, without the rings left empty
OuterRings(surfaces, vertices, transform, dims) ==
    CHOOSE filled \in
        {Pick(rings, {j \in 1..Len(rings) : rings[j] # <<>>}) :
            rings \in {[j \in 1..Len(surfaces) |->
                          IF surfaces[j] = <<>> THEN <<>>
                          ELSE RingCoords(surfaces[j][1], vertices, transform, dims)]}} :
        TRUE

\* the first geometry of the object, in order, that yields a result
FirstResult(results) ==
    IF \A k \in 1..Len(results) : results[k] = <<>> THEN NoGeometry
    ELSE results[CHOOSE k \in 1..Len(results) :
                    results[k] # <<>> /\ \A j \in 1..(k - 1) : results[j] = <<>>][1]

\* _extract_lod0_geometry: the footprint is the first ring of the first LOD 0 geometry
ExtractLod0(city_object, vertices, transform) ==
    FirstResult([k \in 1..Len(city_object.geometry) |->
        IF /\ city_object.geometry[k].lod = "0"
           /\ city_object.geometry[k].type = "MultiSurface"
           /\ city_object.geometry[k].boundaries # <<>>
           /\ vertices # <<>>
        THEN CHOOSE res \in
                {IF coords = <<>> THEN <<>>
                 ELSE IF PolygonOk(coords[1])
                 THEN <<[kind |-> "Polygon", coords |-> coords[1]]>>
                 ELSE <<GeometryError>> :
                    coords \in {OuterRings(city_object.geometry[k].boundaries,
                                           vertices, transform, "xy")}} : TRUE
        ELSE <<>>])

\* _extract_lod_geometry: the surfaces of all shells whose polygon can be built
ExtractLod(city_object, vertices, lod, transform) ==
    FirstResult([k \in 1..Len(city_object.geometry) |->
        IF /\ city_object.geometry[k].lod = lod
           /\ city_object.geometry[k].type = "Solid"
           /\ city_object.geometry[k].boundaries # <<>>
           /\ vertices # <<>>
        THEN CHOOSE res \in
                {IF \A j \in 1..Len(rings) : ~ PolygonOk(rings[j]) THEN <<>>
                 ELSE <<[kind |-> "MultiPolygon",
                         coords |-> Pick(rings, {j \in 1..Len(rings) : PolygonOk(rings[j])})]>> :
                    rings \in {OuterRings(Flatten(city_object.geometry[k].boundaries),
                                          vertices, transform, "xyz")}} : TRUE
        ELSE <<>>])

\* the geometry of a feature: of the main building at LOD 0, else of the first
\* BuildingPart that has the LOD
FeatureGeometry(main, parts, vertices, lod, page_transform) ==
    IF lod = "0" THEN ExtractLod0(main, vertices, page_transform)
    ELSE FirstResult([k \in 1..Len(parts) |->
            CHOOSE res \in {IF g.kind = "none" THEN <<>> ELSE <<g>> :
                              g \in {ExtractLod(parts[k], vertices, lod, page_transform)}} :
                TRUE])

\* the geometry and identifier of one feature, as cityjson_to_geodataframe builds them
FeatureRow(feature, lod, page_transform) ==
    LET objs == feature.CityObjects
        buildings == {k \in 1..Len(objs) : objs[k].type = "Building"}
        main == objs[CHOOSE k \in buildings : \A j \in buildings : k <= j]
        parts == Pick(objs, {k \in 1..Len(objs) : objs[k].type = "BuildingPart"})
    IN IF buildings = {} THEN NoGeometry
       ELSE CHOOSE res \in
            {IF geometry.kind \in {"none", "raise"} THEN geometry
             ELSE [kind |-> "row",
                   row |-> [geometry |-> geometry,
                            identificatie |-> IF "identificatie" \in DOMAIN main.attributes
                                              THEN main.attributes.identificatie
                                              ELSE main.id]] :
                geometry \in {FeatureGeometry(main, parts, feature.vertices,
                                              lod, page_transform)}} : TRUE

PageTransform_FirstPage(cityjson_data) ==
    IF p_pages # <<>> THEN p_pages[1].metadata.transform
    ELSE cityjson_data.metadata.transform

\* the transform cityjson_to_geodataframe reads from the page
PageTransform(cityjson_data) ==
    IF "metadata" \in DOMAIN cityjson_data /\ "transform" \in DOMAIN cityjson_data.metadata
    THEN cityjson_data.metadata.transform
    ELSE NoTransform

\* the rows of the features that have a main building and a geometry
FeatureRows(out) ==
    CHOOSE gdf \in {[k \in 1..Len(rows) |-> rows[k].row] :
                      rows \in {Pick(out, {k \in 1..Len(out) : out[k].kind = "row"})}} : TRUE

\* cityjson_to_geodataframe: [ok |-> FALSE] when building a geometry raises
CityjsonToGeodataframe(cityjson_data, lod) ==
    CHOOSE res \in
        {IF \E k \in 1..Len(out) : out[k].kind = "raise"
         THEN [ok |-> FALSE, gdf |-> <<>>]
         ELSE [ok |-> TRUE, gdf |-> FeatureRows(out)] :
            out \in {[k \in 1..Len(cityjson_data.features) |->
                        FeatureRow(cityjson_data.features[k], lod,
                                   PageTransform(cityjson_data))]}} : TRUE

----------------------------------------------------------------------------
(* Pagination: _download_collection *)

PageCollections == {"pand", "lod22"}

\* collection_id.startswith("lod")
StartsWithLod(collection_id) == collection_id \in {"lod0", "lod12", "lod13", "lod22"}

ActualCollectionId_Same(collection_id) == collection_id

\* BAG3D: the lod* layers are served by the collection "pand"
ActualCollectionId(collection_id) ==
    IF StartsWithLod(collection_id) THEN "pand" ELSE collection_id

\* the LOD of a CityJSON download: "X.Y" for a layer "lodXY", else "0"
LodOf(collection_id) ==
    CASE collection_id = "lod12" -> "1.2"
      [] collection_id = "lod13" -> "1.3"
      [] collection_id = "lod22" -> "2.2"
      [] OTHER -> "0"

\* the href of the first link with rel "next"; "" when there is none
NextHref_Last(links) ==
    LET nexts == {k \in 1..Len(links) : links[k].rel = "next"}
    IN IF nexts = {} THEN ""
       ELSE links[CHOOSE k \in nexts : \A j \in nexts : k >= j].href

NextHref(links) ==
    LET nexts == {k \in 1..Len(links) : links[k].rel = "next"}
    IN IF nexts = {} THEN ""
       ELSE links[CHOOSE k \in nexts : \A j \in nexts : k <= j].href

\* the vertex arrays, transforms and features of the CityJSON pages of this model
V1 == <<<<0, 0, 0>>, <<1, 0, 0>>, <<0, 1, 1>>>>
\* a vertex array that lacks the third vertex the surfaces refer to
V2 == <<<<0, 0, 0>>, <<1, 0, 0>>>>
TA == [scale |-> <<1, 1, 1>>, translate |-> <<10, 20, 0>>]
TB == [scale |-> <<2, 2, 2>>, translate |-> <<10, 20, 0>>]
TC == [scale |-> <<1, 1, 1>>, translate |-> <<10, 20, 5>>]

\* a feature: the parent Building with its footprint and the child
\* BuildingPart with its solids; each object also carries a geometry at the
\* other object's LOD, with the ring walked in another order
CityFeature(id, vertices) ==
    [vertices |-> vertices,
     CityObjects |->
        <<[id |-> id, type |-> "Building", attributes |-> [identificatie |-> id],
           geometry |-> <<[lod |-> "0", type |-> "MultiSurface",
                           boundaries |-> << << <<0, 1, 2>> >> >>],
                          [lod |-> "2.2", type |-> "Solid",
                           boundaries |-> << << << <<2, 1, 0>> >> >> >>]>>],
          [id |-> "part", type |-> "BuildingPart", attributes |-> <<>>,
           geometry |-> <<[lod |-> "0", type |-> "MultiSurface",
                           boundaries |-> << << <<2, 1, 0>> >> >>],
                          [lod |-> "1.2", type |-> "Solid",
                           boundaries |-> << << << <<1, 2, 0>> >> >> >>],
                          [lod |-> "2.2", type |-> "Solid",
                           boundaries |-> << << << <<0, 1, 2>> >> >> >>]>>]>>]

LinkChoices ==
    {<<>>,
     <<[rel |-> "next", href |-> ""]>>,
     <<[rel |-> "self", href |-> "u0"], [rel |-> "next", href |-> "u1"]>>,
     <<[rel |-> "next", href |-> "u2"], [rel |-> "next", href |-> "u1"]>>}

\* the transforms of the pages a server answers with: a transform of its own
\* for every page in a single download, one transform for every page in the
\* downloads of get_features
ServerTransforms == IF fpc = "idle" THEN {TA, TB, TC} ELSE {TA}

\* the CityJSON pages over the given transforms
CityPages(transforms) ==
    {[features |-> f, links |-> l, metadata |-> [transform |-> t]] :
        f \in {<<CityFeature("a", V1)>>, <<CityFeature("a", V1), CityFeature("b", V1)>>,
               <<CityFeature("a", V1), CityFeature("c", V2)>>,
               <<CityFeature("c", V2)>>},
        l \in {<<>>, <<[rel |-> "next", href |-> "u1"]>>},
        t \in transforms}

\* the pages a server may answer with
ServerPages(format) ==
    IF format = "cityjson" THEN CityPages(ServerTransforms)
    ELSE {[features |-> f, links |-> l] :
            f \in {<<>>, <<Fa>>, <<Fb, Fa>>}, l \in LinkChoices}

PagesInit ==
    \E coll \in PageCollections, l \in LimitChoices, t \in {T_latest, T_all},
       fmt \in {"geojson", "cityjson"} :
        /\ fmt = "cityjson" => t = T_latest
        /\ fmt = "geojson" => coll = "pand"
        /\ pin = [collection_id |-> coll, limit |-> l, temporal |-> t, format |-> fmt]
        /\ ppc = "await"
        /\ p_requests = <<[kind |-> "items", target |-> ActualCollectionId(coll),
                            headers |-> NoKwargs,
                            params |-> BuildParams(ProtocolQuirks(NoKwargs), FALSE,
                                                   <<0, 0, 6, 5>>, l, NoKwargs)]>>
        /\ p_pages = <<>>
        /\ page_gdfs = <<>>
        /\ page_total = 0
        /\ is_cityjson = FALSE
        /\ pret = <<>>

PagesIdle ==
    /\ pin = [limit |-> 0]
    /\ ppc = "idle"
    /\ p_requests = <<>>
    /\ p_pages = <<>>
    /\ page_gdfs = <<>>
    /\ page_total = 0
    /\ is_cityjson = FALSE
    /\ pret = <<>>

\* "CityObjects" in first_feature, decided on the first response only
DetectCityjson(geojson) ==
    geojson.features # <<>> /\ "CityObjects" \in DOMAIN geojson.features[1]

\* the frame parsed from one page
ParsePage(geojson, cityjson, lod) ==
    IF cityjson THEN CityjsonToGeodataframe(geojson, lod)
    ELSE [ok |-> TRUE, gdf |-> geojson.features]

\* the limit test after a page
PageLimitReached(limit, total) == limit # 0 /\ total >= limit

\* a response arrives: parse the page, then fetch the next page or return
PageReceive ==
    /\ ppc = "await"
    /\ \E geojson \in ServerPages(pin.format) :
       \E cj \in {IF p_pages = <<>> THEN DetectCityjson(geojson) ELSE is_cityjson} :
       \E parsed \in {ParsePage(geojson, cj, LodOf(pin.collection_id))} :
       \E gdf \in {Tag(parsed.gdf, Len(p_pages) + 1)} :
       \E next_url \in {NextHref(geojson.links)} :
           /\ next_url # "" => Len(p_pages) + 1 < MaxPages
           /\ p_pages' = Append(p_pages, geojson)
           /\ is_cityjson' = cj
           /\ IF geojson.features = <<>>
              THEN \* an empty page ends the loop
                   /\ ppc' = "done"
                   /\ pret' = DownloadResult(page_gdfs, pin.limit, pin.temporal)
                   /\ UNCHANGED <<page_gdfs, page_total, p_requests>>
              ELSE IF ~ parsed.ok
              THEN \* building a geometry raised
                   /\ ppc' = "raised"
                   /\ pret' = <<"geometry error">>
                   /\ UNCHANGED <<page_gdfs, page_total, p_requests>>
              ELSE /\ page_gdfs' = page_gdfs \o gdf
                   /\ page_total' = page_total + Len(gdf)
                   /\ IF PageLimitReached(pin.limit, page_total + Len(gdf)) \/ next_url = ""
                      THEN /\ ppc' = "done"
                           /\ pret' = DownloadResult(page_gdfs \o gdf, pin.limit, pin.temporal)
                           /\ UNCHANGED p_requests
                      ELSE /\ p_requests' = Append(p_requests,
                                                   [kind |-> "href", target |-> next_url,
                                                    headers |-> NoKwargs])
                           /\ UNCHANGED <<ppc, pret>>
    /\ UNCHANGED <<pin, gvars, fvars, qvars, tvars, xvars>>

\* a request fails: raise_for_status or response.json() raises
PageFail ==
    /\ ppc = "await"
    /\ \E cause \in Causes :
        /\ ppc' = "raised"
        /\ pret' = DownloadErrorMsg(pin.collection_id, cause)
    /\ UNCHANGED <<pin, p_requests, p_pages, page_gdfs, page_total, is_cityjson>>
    /\ UNCHANGED <<gvars, fvars, qvars, tvars, xvars>>

PagesNext ==
    \/ PageReceive
    \/ PageFail

----------------------------------------------------------------------------
(* The multi-collection download: get_features *)

LayerChoices == {<<"pand">>, <<"lod12">>, <<"pand", "lod22">>, <<"lod22", "pand">>}

FeaturesIdle ==
    /\ fin = [layers |-> <<>>]
    /\ fpc = "idle"
    /\ f_idx = 0
    /\ f_gdfs = <<>>
    /\ flog = <<>>
    /\ fret = <<>>
    /\ f_out = <<>>

\* the cell counts subdivide_bbox may yield for the area of a get_features call
AreaCellChoices == {1, 2}

\* what the server may answer for a cell of a grid walk started by get_features
AreaServerProfile == [rows |-> {<<>>, <<Fa>>}, causes |-> {"400"}]

\* the values of the quirk max_concurrent_cells of the protocol's quirk set
MaxConcurrentCellsChoices == {1, 2}

\* the quirk sets of the protocol instance
ProtocolQuirkChoices ==
    {ProtocolQuirks(kw) :
        kw \in {NoKwargs,
                [max_features_limit |-> 100, bbox_crs |-> "EPSG:28992"],
                [max_features_limit |-> 100],
                [bbox_crs |-> "EPSG:28992"],
                [max_features_limit |-> 100, bbox_crs |-> "EPSG:4326"],
                [max_features_limit |-> 100, bbox_crs |-> "EPSG:3857"],
                [max_features_limit |-> 100, bbox_crs |-> "EPSG:25832"],
                [max_features_limit |-> 100, bbox_crs |-> "EPSG:28992",
                 require_format_param |-> TRUE],
                [custom_headers |-> [Authorization |-> "token"]]}}

\* the values of the quirk omit_bbox_crs_param of the protocol's quirk set
OmitBboxCrsParamChoices == BOOLEAN

\* the bbox argument, in EPSG:4326
BboxChoices == {<<0, 0, 5, 5>>, <<0, 0, 6, 5>>}

\* the calls that are made with every choice of layers and limit
IsMainProfile(quirks, omit, bbox) ==
    /\ bbox = <<0, 0, 6, 5>>
    /\ \/ quirks = ProtocolQuirks(NoKwargs) /\ ~ omit
       \/ quirks = GridQuirks /\ omit

FeaturesInit ==
    \E layers \in LayerChoices, l \in {0, 1}, m \in MaxConcurrentCellsChoices,
       quirks \in ProtocolQuirkChoices, omit \in OmitBboxCrsParamChoices,
       bbox \in BboxChoices, fmt \in {"geojson", "cityjson"} :
        /\ ~ UseGridWalking(quirks, RequestBbox(quirks, bbox), BboxCrsStr(quirks)) => m = 1
        /\ ~ IsMainProfile(quirks, omit, bbox) =>
                layers = <<"pand">> /\ l = 0 /\ m = 1 /\ fmt = "geojson"
        /\ (UseGridWalking(quirks, RequestBbox(quirks, bbox), BboxCrsStr(quirks))
                \/ l # 0 \/ layers = <<"lod12">>) => fmt = "geojson"
        /\ fin = [layers |-> layers, limit |-> l, temporal |-> T_latest,
                  format |-> fmt,
                  quirks |-> quirks, omit_bbox_crs_param |-> omit, bbox |-> bbox,
                  request_bbox |-> RequestBbox(quirks, bbox),
                  bbox_crs_str |-> BboxCrsStr(quirks),
                  use_grid_walking |-> UseGridWalking(quirks, RequestBbox(quirks, bbox),
                                                      BboxCrsStr(quirks)),
                  max_concurrent_cells |-> m]
        /\ fpc = "loop"
        /\ f_idx = 1
        /\ f_gdfs = <<>>
        /\ flog = <<>>
        /\ fret = <<>>
        /\ f_out = <<>>

\* the frame of a collection, with the column _collection
WithCollection(gdf, collection_id) ==
    [i \in 1..Len(gdf) |->
        [k \in (DOMAIN gdf[i] \ {"src"}) \cup {"_collection"} |->
            IF k = "_collection" THEN collection_id ELSE gdf[i][k]]]

CollectFrame_DropAll(gdfs, collection_id, outcome) ==
    IF outcome.ok THEN gdfs \o WithCollection(outcome.gdf, collection_id) ELSE <<>>

\* the body of the loop over layers once the download has returned or raised
CollectFrame(gdfs, collection_id, outcome) ==
    IF outcome.ok /\ outcome.gdf # <<>>
    THEN gdfs \o WithCollection(outcome.gdf, collection_id)
    ELSE gdfs

\* the line printed by the except branch
CollectWarning(log, collection_id, outcome) ==
    IF outcome.ok THEN log
    ELSE Append(log, [collection |-> collection_id, error |-> outcome.error])

\* one iteration of the loop over layers ends with the given outcome
CollectionEnds(outcome) ==
    LET collection_id == fin.layers[f_idx]
        gdfs == CollectFrame(f_gdfs, collection_id, outcome)
    IN /\ f_gdfs' = gdfs
       /\ flog' = CollectWarning(flog, collection_id, outcome)
       /\ f_out' = Append(f_out, outcome)
       /\ f_idx' = f_idx + 1
       /\ IF f_idx = Len(fin.layers)
          THEN fpc' = "done" /\ fret' = gdfs
          ELSE UNCHANGED <<fpc, fret>>
       /\ UNCHANGED fin

\* grid walking was chosen: _download_collection_with_grid is called with
\* max_concurrent=self.quirks.max_concurrent_cells and creates its first batch
CollectionGridCall ==
    /\ fpc = "loop"
    /\ gpc = "idle"
    /\ ppc = "idle"
    /\ fin.use_grid_walking
    /\ \E n \in AreaCellChoices :
        /\ gin' = [cells |-> n, max_concurrent |-> fin.max_concurrent_cells,
                   limit |-> fin.limit, temporal |-> fin.temporal,
                   collection_id |-> fin.layers[f_idx], server |-> AreaServerProfile,
                   quirks |-> fin.quirks, omit_bbox_crs_param |-> fin.omit_bbox_crs_param,
                   bbox |-> fin.request_bbox]
        /\ task' = [c \in 1..n |->
                        IF c <= Min(fin.max_concurrent_cells, n) THEN ReadyTask ELSE NoTask]
    /\ gpc' = "batch"
    /\ UNCHANGED <<batch_start, seen_ids, all_gdfs, total_features, gret, glog>>
    /\ UNCHANGED <<pvars, fvars, qvars, tvars, xvars>>

\* _download_collection_with_grid has returned
CollectionGridJoin ==
    /\ fpc = "loop"
    /\ gpc = "done"
    /\ CollectionEnds([ok |-> TRUE, gdf |-> gret, error |-> <<>>])
    /\ gin' = [cells |-> 0]
    /\ gpc' = "idle"
    /\ batch_start' = 0
    /\ task' = <<>>
    /\ seen_ids' = {}
    /\ all_gdfs' = <<>>
    /\ total_features' = 0
    /\ gret' = <<>>
    /\ glog' = <<>>
    /\ UNCHANGED <<pvars, qvars, tvars, xvars>>

\* the collection is downloaded with _download_collection: its first request is sent
CollectionDownload ==
    /\ fpc = "loop"
    /\ gpc = "idle"
    /\ ppc = "idle"
    /\ ~ fin.use_grid_walking
    /\ LET coll == fin.layers[f_idx]
       IN /\ pin' = [collection_id |-> coll, limit |-> fin.limit,
                     temporal |-> fin.temporal,
                     format |-> IF StartsWithLod(coll) THEN "cityjson" ELSE fin.format]
          /\ ppc' = "await"
          /\ p_requests' = <<[kind |-> "items", target |-> ActualCollectionId(coll),
                            headers |-> NoKwargs,
                               params |-> BuildParams(fin.quirks, fin.omit_bbox_crs_param,
                                                      fin.request_bbox, fin.limit,
                                                      NoKwargs)]>>
    /\ UNCHANGED <<p_pages, page_gdfs, page_total, is_cityjson, pret, gvars, fvars, qvars, tvars, xvars>>

\* _download_collection has returned or raised
CollectionJoin ==
    /\ fpc = "loop"
    /\ ppc \in {"done", "raised"}
    /\ CollectionEnds(IF ppc = "done"
                      THEN [ok |-> TRUE, gdf |-> pret, error |-> <<>>]
                      ELSE [ok |-> FALSE, gdf |-> <<>>, error |-> pret])
    /\ pin' = [limit |-> 0]
    /\ ppc' = "idle"
    /\ p_requests' = <<>>
    /\ p_pages' = <<>>
    /\ page_gdfs' = <<>>
    /\ page_total' = 0
    /\ is_cityjson' = FALSE
    /\ pret' = <<>>
    /\ UNCHANGED <<gvars, qvars, tvars, xvars>>

FeaturesNext ==
    \/ CollectionGridCall
    \/ CollectionGridJoin
    \/ CollectionDownload
    \/ CollectionJoin
    \/ PagesNext

----------------------------------------------------------------------------
(* The quirk registry and the calls on it *)

\* what quirk files may hold
QuirkData ==
    {[name |-> "q"],
     [name |-> "q", bbox_crs |-> "EPSG:28992"],
     [name |-> "q", bbox_crs |-> "EPSG:28992", max_features_limit |-> 100],
     [name |-> "q", requires_trailing_slash |-> TRUE, require_format_param |-> TRUE],
     [name |-> "q", format_is_cityjson |-> TRUE]}

ConfigChoices ==
    {[providers |-> NoKwargs, services |-> NoKwargs, broken |-> FALSE]}
    \cup {[providers |-> [q \in {"pdok-ogc-features"} |-> pd],
           services |-> [sid \in {sk} |-> [p \in {"ogc-features"} |-> sd]],
           broken |-> b] :
            pd \in QuirkData, sk \in {"bag3d", "pdok-bag3d"}, sd \in QuirkData,
            b \in BOOLEAN}

\* module import: KNOWN_QUIRKS = load_quirks(fallback=LEGACY_KNOWN_QUIRKS)
QuirksInit ==
    /\ \E config \in ConfigChoices : KNOWN_QUIRKS = LoadQuirks(config, LEGACY_KNOWN_QUIRKS)
    /\ q_ret = [op |-> "none"]
    /\ q_app = [op |-> "none"]

QuirksIdle ==
    /\ KNOWN_QUIRKS = NoKwargs
    /\ q_ret = [op |-> "idle"]
    /\ q_app = [op |-> "idle"]

\* requests a client may be about to send
UrlChoices == {<<>>, <<"https://example.com/api">>, <<"https://example.com/api", "/">>}
ParamChoices ==
    {[bbox |-> "1,2,3,4"], [bbox |-> "1,2,3,4", limit |-> 50],
     [bbox |-> "1,2,3,4", limit |-> 150], [bbox |-> "1,2,3,4", limit |-> 100, f |-> "xml"]}
HeaderChoices == {<<>>, [Accept |-> "application/json"]}
TimeoutChoices == {30}

\* the limit argument of _download_collection (0 is None)
RequestLimitChoices == {0, 50, 2000}

GetQuirksCall ==
    /\ q_ret.op # "idle"
    /\ \E provider \in {"pdok", "bag3d", "other"}, protocol \in {"ogc-features", "wfs"} :
        q_ret' = [op |-> "get_quirks", provider |-> provider, protocol |-> protocol,
                  ret |-> GetQuirks(KNOWN_QUIRKS, provider, protocol)]
    /\ q_app' = [op |-> "none"]
    /\ UNCHANGED <<KNOWN_QUIRKS, gvars, pvars, fvars, tvars, xvars>>

GetServiceQuirksCall ==
    /\ q_ret.op # "idle"
    /\ \E provider \in {"pdok", "other"}, protocol \in {"ogc-features", "wfs"},
          service \in {"bag3d", "bgt"} :
        q_ret' = [op |-> "get_service_quirks", provider |-> provider,
                  protocol |-> protocol, service |-> service,
                  ret |-> GetServiceQuirks(KNOWN_QUIRKS, provider, protocol, service)]
    /\ q_app' = [op |-> "none"]
    /\ UNCHANGED <<KNOWN_QUIRKS, gvars, pvars, fvars, tvars, xvars>>

\* the quirks that were looked up are applied to a URL (once and twice), a
\* parameter map, headers and a timeout, to the parameters
\* _download_collection builds, and a protocol is constructed with them
ApplyQuirksCall ==
    /\ q_ret.op \in {"get_quirks", "get_service_quirks"}
    /\ q_app.op = "none"
    /\ IsProtocolQuirks(q_ret.ret)
    /\ \E url \in UrlChoices, params \in ParamChoices, headers \in HeaderChoices,
          default \in TimeoutChoices, limit \in RequestLimitChoices :
        q_app' = [op |-> "apply",
                  limit |-> limit,
                  request |-> BuildParams(q_ret.ret, FALSE, <<0, 0, 6, 5>>, limit, NoKwargs),
                  url |-> url, url_ret |-> ApplyToUrl(q_ret.ret, url),
                  url_twice |-> ApplyToUrl(q_ret.ret, ApplyToUrl(q_ret.ret, url)),
                  base_url |-> ProtocolBaseUrl(q_ret.ret, url),
                  params |-> params, params_ret |-> ApplyToParams(q_ret.ret, params),
                  headers |-> headers, headers_ret |-> ApplyToHeaders(q_ret.ret, headers),
                  timeout |-> default, timeout_ret |-> GetTimeout(q_ret.ret, default)]
    /\ UNCHANGED <<KNOWN_QUIRKS, q_ret, gvars, pvars, fvars, tvars, xvars>>

QuirksNext ==
    \/ GetQuirksCall
    \/ GetServiceQuirksCall
    \/ ApplyQuirksCall

----------------------------------------------------------------------------
(* Decoding a page: cityjson_to_geodataframe as a call on a page a caller holds *)

\* the pages a caller may hold
DecodePages ==
    CityPages({TA, TB, TC})
        \cup {[features |-> <<>>, links |-> <<>>, metadata |-> [transform |-> TA]]}

DecodeLods == {"0", "1.2", "2.2"}

\* a decoder that places the vertices in the page's own vertex arrays
DecodedPage_InPlace(cityjson_data, lod) ==
    [gdf |-> CityjsonToGeodataframe(cityjson_data, lod),
     data |-> [cityjson_data EXCEPT !.features =
                 [k \in 1..Len(cityjson_data.features) |->
                    [cityjson_data.features[k] EXCEPT !.vertices =
                        [i \in 1..Len(cityjson_data.features[k].vertices) |->
                            Coord3(cityjson_data.features[k].vertices[i],
                                   PageTransform(cityjson_data))]]]]]

\* one call of cityjson_to_geodataframe: the frame it returns and the page
\* as the call leaves it; the function reads the page with get and indexing
\* and appends to lists of its own only
DecodedPage(cityjson_data, lod) ==
    [gdf |-> CityjsonToGeodataframe(cityjson_data, lod), data |-> cityjson_data]

DecodeInit ==
    \E page \in DecodePages, lod \in DecodeLods :
        /\ d_page = page
        /\ d_lod = lod
        /\ d_out = <<>>

DecodeIdle ==
    /\ d_page = <<>>
    /\ d_lod = "0"
    /\ d_out = <<>>

\* the caller decodes the page it holds
DecodeCall ==
    /\ Len(d_out) < MaxDecodes
    /\ \E res \in {DecodedPage(d_page, d_lod)} :
        /\ d_out' = Append(d_out, [arg |-> d_page, ret |-> res.gdf, after |-> res.data])
        /\ d_page' = res.data
    /\ UNCHANGED <<d_lod, gvars, pvars, fvars, qvars, tvars, mvars, svars>>

DecodeNext ==
    \/ DecodeCall

----------------------------------------------------------------------------
(* QuirksMonitor *)

\* (provider, protocol, quirk_type)
MonitorKeys ==
    {<<"pdok", "ogc-features", "format_param">>,
     <<"pdok", "wfs", "trailing_slash">>}

\* QuirkUsage(provider, protocol, quirk_type); 0 stands for a timestamp of None
NewUsage == [applied_count |-> 0, last_applied |-> 0, first_applied |-> 0]

\* QuirkUsage.record_application
RecordApplication(u, now) ==
    [applied_count |-> u.applied_count + 1,
     last_applied |-> now,
     first_applied |-> IF u.first_applied = 0 THEN now ELSE u.first_applied]

RecordQuirkApplied_Always(stats, on, key, now) ==
    LET created == IF key \in DOMAIN stats THEN stats ELSE stats @@ (key :> NewUsage)
    IN [created EXCEPT ![key] = RecordApplication(@, now)]

\* record_quirk_applied: _usage after the call
RecordQuirkApplied(stats, on, key, now) ==
    IF ~ on THEN stats
    ELSE LET created == IF key \in DOMAIN stats THEN stats
                        ELSE stats @@ (key :> NewUsage)
         IN [created EXCEPT ![key] = RecordApplication(@, now)]

\* datetime.now() of a call: the clock advances with every call
Now == Len(monitor_calls) + 1

\* QuirksMonitor()
MonitorInit ==
    /\ usage = <<>>
    /\ enabled = TRUE
    /\ monitor_calls = <<>>

MonitorIdle ==
    /\ usage = <<>>
    /\ enabled = FALSE
    /\ monitor_calls = <<>>

RecordCall ==
    /\ Len(monitor_calls) < MaxCalls
    /\ \E key \in MonitorKeys :
       \E stats \in {RecordQuirkApplied(usage, enabled, key, Now)} :
        /\ usage' = stats
        /\ monitor_calls' = Append(monitor_calls, [op |-> "record", key |-> key, stats |-> stats])
    /\ UNCHANGED <<enabled, gvars, pvars, fvars, qvars, tvars, dvars, svars>>

ResetCall ==
    /\ Len(monitor_calls) < MaxCalls
    /\ usage' = <<>>
    /\ monitor_calls' = Append(monitor_calls, [op |-> "reset", stats |-> <<>>])
    /\ UNCHANGED <<enabled, gvars, pvars, fvars, qvars, tvars, dvars, svars>>

DisableCall ==
    /\ Len(monitor_calls) < MaxCalls
    /\ enabled' = FALSE
    /\ monitor_calls' = Append(monitor_calls, [op |-> "disable", stats |-> usage])
    /\ UNCHANGED <<usage, gvars, pvars, fvars, qvars, tvars, dvars, svars>>

EnableCall ==
    /\ Len(monitor_calls) < MaxCalls
    /\ enabled' = TRUE
    /\ monitor_calls' = Append(monitor_calls, [op |-> "enable", stats |-> usage])
    /\ UNCHANGED <<usage, gvars, pvars, fvars, qvars, tvars, dvars, svars>>

MonitorNext ==
    \/ RecordCall
    \/ ResetCall
    \/ DisableCall
    \/ EnableCall

----------------------------------------------------------------------------
(* MultiProtocolProvider.download_dataset *)

\* the services of the configurations a provider may be loaded from
ServiceConfigs ==
    {[bgt |-> [protocol |-> "ogc-features", url |-> <<"https://api.example/bgt", "/">>],
      bag |-> [protocol |-> "ogc-features", url |-> <<"https://api.example/bag", "/">>],
      ahn |-> [protocol |-> "wcs", url |-> <<"https://api.example/ahn">>]],
     [bgt |-> [url |-> <<"https://api.example/bgt">>],
      kad |-> [protocol |-> "wfs", url |-> <<"https://api.example/kad">>],
      ov |-> [protocol |-> "gtfs", url |-> <<"https://api.example/ov">>]]}

\* dataset.service of the calls; "" is a dataset without a service
ServiceChoices == {"", "bgt", "bag", "ahn", "kad", "ov"}

\* service_config.get("protocol", "ogc-features")
ProtocolNameOf(service_config) ==
    IF "protocol" \in DOMAIN service_config THEN service_config.protocol ELSE "ogc-features"

\* _create_protocol_handler: the handler, with the base URL it is built from
\* (the handlers of gtfs and csv take no URL)
CreateProtocolHandler(protocol_name, service_config) ==
    CASE protocol_name = "ogc-features" ->
            [protocol |-> protocol_name,
             base_url |-> ProtocolBaseUrl(ProtocolQuirks(NoKwargs), service_config.url)]
      [] protocol_name \in {"wcs", "wmts", "wfs"} ->
            [protocol |-> protocol_name, base_url |-> service_config.url]
      [] OTHER ->
            [protocol |-> protocol_name, base_url |-> <<>>]

\* get_protocol, and register_protocol of a new handler when there is none
HandlerFor(registered, protocol_name, service_config) ==
    IF protocol_name \in DOMAIN registered THEN registered[protocol_name]
    ELSE CreateProtocolHandler(protocol_name, service_config)

\* what download_dataset does with the handler
Delegation(protocol_name) ==
    IF protocol_name \in {"ogc-features", "wfs"} THEN "get_features"
    ELSE IF protocol_name \in {"gtfs", "csv"} THEN "fetch"
    ELSE "NotImplementedError"

\* MultiProtocolProvider(name, config_file)
ProviderInit ==
    \E config \in ServiceConfigs :
        /\ services = config
        /\ protocols = <<>>
        /\ downloads = <<>>

ProviderIdle ==
    /\ services = <<>>
    /\ protocols = <<>>
    /\ downloads = <<>>

\* download_dataset(dataset, location, output_path)
DownloadDatasetCall ==
    /\ Len(downloads) < MaxDownloads
    /\ \E service \in ServiceChoices :
        IF service = "" \/ service \notin DOMAIN services
        THEN /\ downloads' = Append(downloads, [service |-> service, did |-> "ValueError"])
             /\ UNCHANGED protocols
        ELSE LET service_config == services[service]
                 protocol_name == ProtocolNameOf(service_config)
                 protocol == HandlerFor(protocols, protocol_name, service_config)
             IN /\ protocols' = IF protocol_name \in DOMAIN protocols THEN protocols
                                ELSE protocols @@ (protocol_name :> protocol)
                /\ downloads' = Append(downloads,
                                       [service |-> service,
                                        did |-> Delegation(protocol_name),
                                        handler |-> protocol])
    /\ UNCHANGED <<services, gvars, pvars, fvars, qvars, tvars, dvars, mvars>>

ProviderNext ==
    \/ DownloadDatasetCall

----------------------------------------------------------------------------
(* The specifications *)

MainIdle == GridIdle /\ PagesIdle /\ FeaturesIdle /\ QuirksIdle /\ TemporalIdle

OthersIdle == DecodeIdle /\ MonitorIdle /\ ProviderIdle

\* a caller decodes a page
DecodeEntry == DecodeInit /\ MainIdle /\ MonitorIdle /\ ProviderIdle

\* a caller uses a monitor
MonitorEntry == MonitorInit /\ MainIdle /\ DecodeIdle /\ ProviderIdle

\* a caller downloads datasets from a provider
ProviderEntry == ProviderInit /\ MainIdle /\ DecodeIdle /\ MonitorIdle

\* a caller runs one grid walk
GridEntry == GridInit /\ PagesIdle /\ FeaturesIdle /\ QuirksIdle /\ TemporalIdle /\ OthersIdle

\* a caller runs one paginated download
PagesEntry == PagesInit /\ GridIdle /\ FeaturesIdle /\ QuirksIdle /\ TemporalIdle /\ OthersIdle

\* a caller runs get_features
FeaturesEntry == FeaturesInit /\ PagesIdle /\ GridIdle /\ QuirksIdle /\ TemporalIdle /\ OthersIdle

\* a caller resolves quirks
QuirksEntry == QuirksInit /\ GridIdle /\ PagesIdle /\ FeaturesIdle /\ TemporalIdle /\ OthersIdle

\* a caller resolves a frame temporally
TemporalEntry == TemporalInit /\ GridIdle /\ PagesIdle /\ FeaturesIdle /\ QuirksIdle /\ OthersIdle

DownloadEntry == GridEntry \/ PagesEntry

DownloadNext == GridNext \/ PagesNext

FeaturesOrGridEntry == FeaturesEntry \/ GridEntry

FeaturesOrGridNext == FeaturesNext \/ GridNext

SpecGrid == GridEntry /\ [][GridNext]_vars

SpecPages == PagesEntry /\ [][PagesNext]_vars

SpecDownload == DownloadEntry /\ [][DownloadNext]_vars

SpecFeatures == FeaturesOrGridEntry /\ [][FeaturesOrGridNext]_vars

SpecQuirks == QuirksEntry /\ [][QuirksNext]_vars

SpecTemporal == TemporalEntry /\ [][TemporalNext]_vars

SpecDecode == DecodeEntry /\ [][DecodeNext]_vars

SpecMonitor == MonitorEntry /\ [][MonitorNext]_vars

SpecProvider == ProviderEntry /\ [][ProviderNext]_vars

----------------------------------------------------------------------------
(* Properties of grid walking *)

Ids == {"a", "b"}

\* the identifiers a frame's rows carry
IdsOf(gdf) == {Val(gdf[i], "identificatie") : i \in 1..Len(gdf)} \ {NaN}

\* the positions of the rows of gdf that carry identifier id
Copies(gdf, id) == {i \in 1..Len(gdf) : Val(gdf[i], "identificatie") = id}

CellOk(c) == task[c].st = "settled" /\ task[c].error = <<>>
CellFailed(c) == task[c].st = "settled" /\ task[c].error # <<>>

\* the cells whose result holds a feature with identifier id
CellsWith(id) == {c \in 1..gin.cells : CellOk(c) /\ id \in IdsOf(task[c].gdf)}

FirstCellWith(id) == CHOOSE c \in CellsWith(id) : \A d \in CellsWith(id) : c <= d

\* the cap cut rows off the merged frame
Truncated == gin.limit # 0 /\ Len(all_gdfs) > gin.limit

Merged(c) == c <= batch_start \/ gpc = "done"

\* C3: a cell whose attempts fail with HTTP 504 is given up only after its
\* third attempt, is then reported as failed, and a settled cell is never
\* attempted again.
C3_RetryBound ==
    /\ [](\A c \in 1..gin.cells :
            CellFailed(c) /\ task[c].error = DownloadErrorMsg(gin.collection_id, "504") =>
                /\ task[c].attempt + 1 = 3
                /\ Merged(c) => \E i \in 1..Len(glog) :
                                    glog[i] = [cell |-> c, error |-> task[c].error])
    /\ [][\A c \in 1..gin.cells : task[c].st = "settled" => task'[c] = task[c]]_vars

\* witness of C3: a cell failed on 504 at its third attempt and was reported
C3_Witness ==
    \E c \in 1..gin.cells :
        /\ CellFailed(c) /\ Merged(c)
        /\ task[c].error = DownloadErrorMsg(gin.collection_id, "504")
        /\ task[c].attempt = 2
        /\ \E i \in 1..Len(glog) : glog[i].cell = c

\* the failure behind an error message is a transient one (the 504 of this model)
TransientFailure(error_msg) == error_msg[Len(error_msg)] = HttpStatusText("504")

\* C4 as stated: a cell backs off for a retry only after a transient failure.
C4_RetryOnlyTransient ==
    \A c \in 1..gin.cells :
        task[c].st = "sleeping" => TransientFailure(task[c].error)

\* cell c's task has been created and has not returned
Running(c) == task[c].st \in {"ready", "inflight", "sleeping"}

BatchOf(c) == (c - 1) \div gin.max_concurrent

\* C5: at most max_concurrent cell downloads run at any moment, and no cell of
\* a later batch is started before every cell of the earlier batches has settled.
C5_BatchesInSequence ==
    /\ Cardinality({c \in 1..gin.cells : Running(c)}) <= gin.max_concurrent
    /\ \A c, d \in 1..gin.cells :
        BatchOf(c) < BatchOf(d) /\ task[d].st # "none" => task[c].st = "settled"

\* witness of C5: a second batch runs after a first batch of two concurrent cells
C5_Witness ==
    /\ gin.max_concurrent = 2
    /\ batch_start = 2
    /\ task[1].attempt # task[2].attempt
    /\ Running(3)

----------------------------------------------------------------------------
(* Properties of pagination and of the cap *)

LastPage == p_pages[Len(p_pages)]

\* a page offers a next link
HasNext(page) == \E k \in 1..Len(page.links) : page.links[k].rel = "next" /\ page.links[k].href # ""

\* C2: with a cap N >= 1 the returned frame has at most N rows, in a paginated
\* download and in a grid walk, and once the running total has reached N no
\* further page is requested and no further cell download is started.
C2_CapRespected ==
    /\ [](/\ (gpc = "done" /\ gin.limit # 0) => Len(gret) <= gin.limit
          /\ (ppc = "done" /\ pin.limit # 0) => Len(pret) <= pin.limit)
    /\ [][/\ (gpc # "idle" /\ gin.limit # 0 /\ total_features >= gin.limit) =>
                \A c \in 1..gin.cells :
                    task'[c].st \in {"ready", "inflight"} => task'[c].st = task[c].st
          /\ (ppc # "idle" /\ pin.limit # 0 /\ page_total >= pin.limit) =>
                p_requests' = p_requests]_vars

\* witness of C2: a paginated download stopped by the cap although the last
\* page offered a next link, and the result was cut to the cap
C2_Witness ==
    /\ ppc = "done"
    /\ pin.limit = 1
    /\ page_total = 2
    /\ HasNext(LastPage)
    /\ Len(pret) = 1

\* the components of a vertex a geometry of the given LOD uses
UsedComponents(lod_) == IF lod_ = "0" THEN 1..2 ELSE 1..3

\* vertex * scale + translate for the vertices 0, 1, 2 of a feature
ExpectedRing(vertices, t, lod_) ==
    [i \in 1..3 |-> [c \in UsedComponents(lod_) |->
                        vertices[i][c] * t.scale[c] + t.translate[c]]]

ExpectedCoords(vertices, t, lod_) ==
    IF lod_ = "0" THEN ExpectedRing(vertices, t, lod_) ELSE <<ExpectedRing(vertices, t, lod_)>>

\* the feature of a page that carries the identifier
FeatureOf(page, id) ==
    page.features[CHOOSE j \in 1..Len(page.features) :
                    page.features[j].CityObjects[1].attributes.identificatie = id]

\* the rows parsed from page k
RowsOfPage(k) == Pick(page_gdfs, {i \in 1..Len(page_gdfs) : page_gdfs[i].src = k})

\* the coordinates decoded for the features of page k, in order
DecodedCoords(k) == [i \in 1..Len(RowsOfPage(k)) |-> RowsOfPage(k)[i].geometry.coords]

\* the vertex array holds the vertices 0, 1, 2 the surfaces refer to
HasAllVertices(feature) == Len(feature.vertices) >= 3

\* two transforms place some vertex of a decoded feature of the page
\* differently at the given LOD
PlaceDifferently(page, t1, t2, lod_) ==
    \E j \in 1..Len(page.features) :
        /\ HasAllVertices(page.features[j])
        /\ ExpectedRing(page.features[j].vertices, t1, lod_)
            # ExpectedRing(page.features[j].vertices, t2, lod_)

\* every row of a CityJSON download has the coordinates vertex * scale +
\* translate for the transform of the page the row came from
OwnTransformDecoding ==
    is_cityjson =>
        /\ \A i \in 1..Len(page_gdfs) :
            LET page == p_pages[page_gdfs[i].src]
            IN page_gdfs[i].geometry.coords =
                    ExpectedCoords(FeatureOf(page, page_gdfs[i].identificatie).vertices,
                                   page.metadata.transform, LodOf(pin.collection_id))
        /\ \A k \in 1..Len(p_pages) :
             \* the page on which the download raised contributes no row
             ~ (ppc = "raised" /\ k = Len(p_pages)) =>
             Len(RowsOfPage(k)) =
                Cardinality({j \in 1..Len(p_pages[k].features) :
                                HasAllVertices(p_pages[k].features[j])})

\* C6 as stated: every page is decoded with its own transform, and two pages
\* with the same features (hence the same raw vertices) and different
\* transforms decode to different coordinates.
C6_DifferentTransformsDiffer ==
    /\ OwnTransformDecoding
    /\ is_cityjson =>
       \A k, m \in 1..Len(p_pages) :
            (/\ p_pages[k].features = p_pages[m].features
             /\ p_pages[k].metadata.transform # p_pages[m].metadata.transform)
            => DecodedCoords(k) # DecodedCoords(m)

\* C6 as amended: every page is decoded with its own transform, never with
\* the transform of another page; two pages with the same features decode to
\* different coordinates exactly when their transforms place a vertex
\* differently in the components the LOD uses (x, y at LOD 0; x, y, z else).
C6_OwnTransformPerPage ==
    /\ OwnTransformDecoding
    /\ is_cityjson =>
       \A k, m \in 1..Len(p_pages) :
            p_pages[k].features = p_pages[m].features =>
                (DecodedCoords(k) # DecodedCoords(m)
                    <=> PlaceDifferently(p_pages[k], p_pages[k].metadata.transform,
                                         p_pages[m].metadata.transform,
                                         LodOf(pin.collection_id)))

\* witness of C6: two pages with the same features and different transforms,
\* decoded to different coordinates
C6_Witness ==
    /\ is_cityjson
    /\ Len(p_pages) >= 2
    /\ p_pages[1].features = p_pages[2].features
    /\ p_pages[1].metadata.transform = TA
    /\ p_pages[2].metadata.transform = TB
    /\ DecodedCoords(1) # DecodedCoords(2)
    /\ Len(RowsOfPage(2)) = 2

\* requests are sent one after the other, and every request after the first
\* targets the href of the first rel=next link of the page before it
FollowsNextLinks ==
    /\ Len(p_requests) - Len(p_pages) \in {0, 1}
    /\ ppc = "await" => Len(p_requests) = Len(p_pages) + 1
    /\ ppc = "done" => Len(p_requests) = Len(p_pages)
    /\ \A k \in 2..Len(p_requests) :
        /\ p_requests[k].kind = "href"
        /\ \E j \in 1..Len(p_pages[k - 1].links) :
            /\ p_pages[k - 1].links[j].rel = "next"
            /\ p_pages[k - 1].links[j].href = p_requests[k].target
            /\ \A i \in 1..(j - 1) : p_pages[k - 1].links[i].rel # "next"

CapReached == pin.limit # 0 /\ page_total >= pin.limit

\* C7 as stated: pages are fetched one after the other, each request targets
\* the next link of the page before it, and the download returns only when a
\* page has no next link or the count has reached the cap.
C7_UntilNoNextOrCap ==
    /\ FollowsNextLinks
    /\ ppc = "done" => (~ HasNext(LastPage) \/ CapReached)

\* C7 as amended: pages are fetched one after the other, each request targets
\* the first rel=next link of the page before it, and the download returns
\* when a page has no next link, when a page has no features, or when the
\* count has reached the cap; while none of these holds the next page is requested.
C7_UntilNoNextEmptyOrCap ==
    /\ FollowsNextLinks
    /\ ppc = "done" => (~ HasNext(LastPage) \/ LastPage.features = <<>> \/ CapReached)
    /\ (ppc = "await" /\ p_pages # <<>>) =>
            (HasNext(LastPage) /\ LastPage.features # <<>> /\ ~ CapReached)

\* witness of C7: three pages fetched in sequence, the second request to the
\* first of two next links, the third page without a next link
C7_Witness ==
    /\ ppc = "done"
    /\ Len(p_requests) = 3
    /\ p_requests[2].target = "u2"
    /\ Len(p_pages) = 3
    /\ ~ HasNext(LastPage)
    /\ LastPage.features # <<>>

----------------------------------------------------------------------------
(* Properties of the multi-collection download *)

\* the rows of a frame that belong to a collection
RowsOfCollection(gdf, collection_id) ==
    Pick(gdf, {j \in 1..Len(gdf) : gdf[j]["_collection"] = collection_id})

IdColumn(gdf) == [k \in 1..Len(gdf) |-> Val(gdf[k], "identificatie")]

\* C8: a collection whose download failed does not keep the other collections
\* from being downloaded, and the rows of every collection that succeeded are
\* returned; in a grid walk (without a cap) the features of every cell that
\* succeeded are in the merged output although other cells failed.
C8_FailuresIsolated ==
    /\ fpc = "done" =>
        /\ Len(f_out) = Len(fin.layers)
        /\ \A i \in 1..Len(f_out) :
            f_out[i].ok =>
                IdColumn(RowsOfCollection(fret, fin.layers[i])) = IdColumn(f_out[i].gdf)
    /\ (gpc = "done" /\ gin.limit = 0) =>
        \A c \in 1..gin.cells :
            CellOk(c) =>
                \A i \in 1..Len(task[c].gdf) :
                    IF "identificatie" \in DOMAIN task[c].gdf[i]
                    THEN task[c].gdf[i].identificatie \in IdsOf(gret)
                    ELSE \E j \in 1..Len(gret) : gret[j] = task[c].gdf[i]

\* witness of C8: the first of two collections failed, the second succeeded
\* and its rows are returned
C8_Witness ==
    /\ fpc = "done"
    /\ Len(f_out) = 2
    /\ ~ f_out[1].ok
    /\ f_out[2].ok
    /\ f_out[2].gdf # <<>>
    /\ Len(fret) = Len(f_out[2].gdf)

\* C9 as stated: what a download returns names every collection and every
\* cell that failed, with the error.
C9_FailuresReturned ==
    /\ fpc = "done" =>
        \A i \in 1..Len(f_out) :
            ~ f_out[i].ok =>
                \E j \in 1..Len(fret) :
                    "error" \in DOMAIN fret[j] /\ fret[j]["_collection"] = fin.layers[i]
    /\ gpc = "done" =>
        \A c \in 1..gin.cells :
            CellFailed(c) =>
                \E j \in 1..Len(gret) : "error" \in DOMAIN gret[j] /\ gret[j].src = c

----------------------------------------------------------------------------
(* Properties of quirk resolution *)

\* the provider quirks and the service quirks behind the last lookup
BaseOfCall == GetQuirks(KNOWN_QUIRKS, q_ret.provider, q_ret.protocol)
ServiceOfCall ==
    KNOWN_QUIRKS[ServiceKey(KNOWN_QUIRKS, q_ret.provider, q_ret.protocol, q_ret.service)]
                [q_ret.protocol]
ServiceFound ==
    /\ q_ret.op = "get_service_quirks"
    /\ ServiceKey(KNOWN_QUIRKS, q_ret.provider, q_ret.protocol, q_ret.service) # ""

\* C10 as stated: get_service_quirks returns the provider quirks with exactly
\* the non-default fields of the service quirks written over them, field by field.
C10_NonDefaultFieldsOverlay ==
    ServiceFound =>
        \A f \in QuirkFields :
            q_ret.ret.values[f] =
                IF ServiceOfCall.values[f] # Default(f)
                THEN ServiceOfCall.values[f] ELSE BaseOfCall.values[f]

\* no configuration matches the last lookup
NoConfigMatches ==
    /\ ~ (q_ret.provider \in DOMAIN KNOWN_QUIRKS
          /\ q_ret.protocol \in DOMAIN KNOWN_QUIRKS[q_ret.provider])
    /\ q_ret.op = "get_service_quirks" =>
            ServiceKey(KNOWN_QUIRKS, q_ret.provider, q_ret.protocol, q_ret.service) = ""

\* C11: every lookup, of known and of unknown names, returns a quirk set; when
\* no configuration matches it is the default quirk set, and applying that to
\* a request leaves the URL, the parameters, the headers and the timeout as they were.
C11_ResolutionNeverRaises ==
    q_ret.op \in {"get_quirks", "get_service_quirks"} =>
        /\ IsProtocolQuirks(q_ret.ret)
        /\ DOMAIN q_ret.ret.values = QuirkFields
        /\ NoConfigMatches =>
            /\ \A f \in QuirkFields : q_ret.ret.values[f] = Default(f)
            /\ q_app.op = "apply" =>
                /\ q_app.url_ret = q_app.url
                /\ q_app.params_ret.ret = q_app.params
                /\ q_app.headers_ret = q_app.headers
                /\ q_app.timeout_ret = q_app.timeout

\* witness of C11: a service lookup of an unknown provider and service whose
\* result was applied to a request with a limit and headers
C11_Witness ==
    /\ q_ret.op = "get_service_quirks"
    /\ q_ret.provider = "other"
    /\ q_ret.service = "bgt"
    /\ NoConfigMatches
    /\ q_app.op = "apply"
    /\ "limit" \in DOMAIN q_app.params
    /\ q_app.headers # <<>>
    /\ q_app.params_ret.ret = q_app.params

\* ---- temporal filtering ----

\* a record whose end-of-registration is set
Ended(r) == "eind_registratie" \in DOMAIN r /\ r["eind_registratie"] # 0

\* the sort key of the tie-break: registration timestamp, else version, else
\* none (first-seen order)
TieKey(cols) ==
    IF "tijdstip_registratie" \in cols THEN "tijdstip_registratie"
    ELSE IF "version" \in cols THEN "version"
    ELSE ""

\* the rank of a record under a sort key; a missing value ranks lowest
Rank(r, key) == IF key = "" THEN 0 ELSE IF key \in DOMAIN r THEN r[key] ELSE -1

\* the least element of a non-empty set of positions
FirstOf(K) == CHOOSE k \in K : \A m \in K : k <= m

\* out holds only records of in at the positions K, and for every identifier
\* among them exactly one record, of the highest rank under key (the first
\* in input order when there is no key)
OnePerId(in, K, out, idf, key) ==
    /\ \A j \in 1..Len(out) : \E i \in K : in[i] = out[j]
    /\ \A i \in K :
         LET same == {k \in K : Val(in[k], idf) = Val(in[i], idf)}
             outs == {j \in 1..Len(out) : Val(out[j], idf) = Val(in[i], idf)}
         IN /\ Cardinality(outs) = 1
            /\ \A j \in outs :
                 /\ \A k \in same : Rank(in[k], key) <= Rank(out[j], key)
                 /\ key = "" => out[j] = in[FirstOf(same)]

\* the positions of the records the 'latest' strategy may keep
NotEnded(gdf) == {i \in 1..Len(gdf) : ~Ended(gdf[i])}

\* the frame holds exactly the records A, B and C of the scenario
IsScenarioABC(gdf) == Len(gdf) = 3 /\ {gdf[i] : i \in 1..3} = {RA, RB, RC}

\* C12: under 'latest', a frame with an identifier field loses its records
\* with a non-empty end-of-registration and keeps, per identifier, exactly
\* one of the rest: the one with the newest registration timestamp, else
\* (no timestamp field) the highest version, else (neither field) the first
\* in input order; of A, B and C sharing X1 only C is returned.
C12_LatestNewestPerId ==
    (t_ret.op = "call" /\ t_ret.temporal.s = "latest"
        /\ IdFieldOf(Columns(t_gdf)) # "None") =>
      /\ OnePerId(t_gdf, NotEnded(t_gdf), t_ret.ret,
                  IdFieldOf(Columns(t_gdf)), TieKey(Columns(t_gdf)))
      /\ IsScenarioABC(t_gdf) => t_ret.ret = <<RC>>

C12_Witness ==
    /\ t_ret.op = "call" /\ t_ret.temporal.s = "latest"
    /\ t_gdf = <<RA, RB, RC>>
    /\ t_ret.ret = <<RC>>

\* the positions of the records registered on or before d whose termination
\* is empty or after d
AsOfCandidates(gdf, d) ==
    {i \in 1..Len(gdf) :
        /\ "tijdstip_registratie" \in DOMAIN gdf[i]
        /\ gdf[i]["tijdstip_registratie"] <= d
        /\ NullEmptyOrAfter(gdf[i], "termination_date", d)}

\* C13: under an ISO date, a frame with an identifier field keeps exactly
\* the records registered on or before the date whose termination is empty
\* or after the date, and of those one per identifier, the newest.
C13_AsOfNewestPerId ==
    (t_ret.op = "call" /\ t_ret.temporal.s = "date"
        /\ IdFieldOf(Columns(t_gdf)) # "None") =>
      OnePerId(t_gdf, AsOfCandidates(t_gdf, t_ret.temporal.d), t_ret.ret,
               IdFieldOf(Columns(t_gdf)), "tijdstip_registratie")

\* the positions of the records whose termination is empty or after now
NotTerminated(gdf, now) ==
    {i \in 1..Len(gdf) : NullEmptyOrAfter(gdf[i], "termination_date", now)}

\* C14 as stated: under 'active', a frame with an identifier field keeps
\* only records whose termination is empty or in the future, and of those
\* one per identifier, the one with the newest registration timestamp.
C14_ActiveThenNewest ==
    (t_ret.op = "call" /\ t_ret.temporal.s = "active"
        /\ IdFieldOf(Columns(t_gdf)) # "None") =>
      OnePerId(t_gdf, NotTerminated(t_gdf, t_ret.now), t_ret.ret,
               IdFieldOf(Columns(t_gdf)), "tijdstip_registratie")

\* C14: under 'active', a frame with an identifier field keeps only records
\* whose termination is empty or in the future and whose end-of-registration
\* is empty, and of those one per identifier by the rule of 'latest': the
\* newest registration timestamp, else the highest version, else the first
\* in input order.
C14_ActiveThenLatest ==
    (t_ret.op = "call" /\ t_ret.temporal.s = "active"
        /\ IdFieldOf(Columns(t_gdf)) # "None") =>
      OnePerId(t_gdf, NotTerminated(t_gdf, t_ret.now) \cap NotEnded(t_gdf),
               t_ret.ret, IdFieldOf(Columns(t_gdf)), TieKey(Columns(t_gdf)))

\* a terminated record, an ended record and two live ones of one identifier
C14_Witness ==
    /\ t_ret.op = "call" /\ t_ret.temporal.s = "active"
    /\ t_gdf = <<RA, [identificatie |-> "X1", tijdstip_registratie |-> 4,
                       eind_registratie |-> 4], RB>>
    /\ t_ret.ret = <<RB>>

\* C15: when the strategy is neither latest, active, all nor a date that
\* parses, the result is what 'latest' returns on the same input and a
\* warning is written.
C15_UnparsableFallsBackWithWarning ==
    (t_ret.op = "call" /\ t_ret.temporal.s \in {"baddate", "other"}) =>
      /\ t_ret.ret = ApplyTemporalFilter(t_gdf, T_latest, t_ret.now)
      /\ t_ret.log # <<>>

\* the set of the records of a frame
RecordSet(gdf) == {gdf[i] : i \in 1..Len(gdf)}

\* C16: for every strategy, the same records in another order yield the
\* same set of records.
C16_OrderIndependent ==
    (t_ret.op = "call" /\ t_re.op = "call") =>
      RecordSet(t_ret.ret) = RecordSet(t_re.ret)

\* the frame has neither identifier column
NoIdField(gdf) ==
    "lokaal_id" \notin Columns(gdf) /\ "identificatie" \notin Columns(gdf)

\* C17: a frame without lokaal_id and identificatie is returned unchanged
\* under every strategy, and 'all' returns every frame unchanged.
C17_NoIdOrAllUnchanged ==
    t_ret.op = "call" =>
      /\ NoIdField(t_gdf) => t_ret.ret = t_gdf
      /\ t_ret.temporal.s = "all" => t_ret.ret = t_gdf

\* two equal records without identifier, terminated in the past, under
\* 'active'
C17_Witness ==
    /\ t_ret.op = "call" /\ t_ret.temporal.s = "active"
    /\ t_gdf = <<[naam |-> "n", tijdstip_registratie |-> 1, termination_date |-> 1],
                 [naam |-> "n", tijdstip_registratie |-> 1, termination_date |-> 1]>>
    /\ t_ret.ret = t_gdf

\* ---- the choice between grid walking and a direct download ----

\* width * height of a bbox
AreaOf(bbox) == (bbox[3] - bbox[1]) * (bbox[4] - bbox[2])

\* the area above which a bbox is walked by grid
AreaThreshold == 500 * 500

\* the quirk set has a feature ceiling and the request bbox is larger than
\* the threshold
LargeWithCeiling ==
    /\ fin.quirks.values.max_features_limit # 0
    /\ AreaOf(fin.request_bbox) > AreaThreshold

\* C18 as stated: a collection is downloaded by grid walking exactly when
\* the area of the bbox in the request CRS exceeds the threshold and the
\* quirk set declares a feature ceiling; otherwise by one direct download.
C18_GridIffLargeAndCeiling ==
    fpc = "loop" =>
      /\ gpc # "idle" => LargeWithCeiling
      /\ ppc # "idle" => ~ LargeWithCeiling

\* C18: a collection is downloaded by grid walking exactly when the quirk
\* set declares a feature ceiling, the request CRS is EPSG:28992 or
\* EPSG:3857, and the area of the bbox in that CRS exceeds the threshold;
\* otherwise by one direct download.
C18_GridIffMetricLargeAndCeiling ==
    fpc = "loop" =>
      /\ gpc # "idle" =>
            LargeWithCeiling /\ fin.bbox_crs_str \in {"EPSG:28992", "EPSG:3857"}
      /\ ppc # "idle" =>
            ~ (LargeWithCeiling /\ fin.bbox_crs_str \in {"EPSG:28992", "EPSG:3857"})

\* a grid walk in EPSG:3857 is under way
C18_Witness ==
    /\ fpc = "loop" /\ gpc = "batch"
    /\ fin.quirks.values.bbox_crs = "EPSG:3857"
    /\ fin.request_bbox = <<0, 0, 900, 750>>
    /\ \E c \in DOMAIN task : task[c].st = "inflight"

\* ---- the bbox and bbox-crs parameters ----

\* the parameter maps of the requests built for the running get_features
\* call, each with the bbox it was built for: the first request of a direct
\* download and the request of every grid cell that was started
BuiltRequests ==
    {[params |-> p_requests[1].params, cell |-> 0] : k \in {1} \cap DOMAIN p_requests}
    \cup {[params |-> task[c].params, cell |-> c] :
            c \in {d \in DOMAIN task : task[d].st \notin {"none", "ready"}}}

\* the caller's bbox in the CRS the quirk set names
Reprojected(bbox, crs) ==
    <<TransformPoint(crs, bbox[1], bbox[2])[1], TransformPoint(crs, bbox[1], bbox[2])[2],
      TransformPoint(crs, bbox[3], bbox[4])[1], TransformPoint(crs, bbox[3], bbox[4])[2]>>

\* the bbox of a request is b, or the cell of b the request is for
CarriesBbox(r, b) ==
    r.params["bbox"] = IF r.cell = 0 THEN b ELSE CellBbox(b, r.cell)

\* C19: in every request built for a get_features call: when the quirk
\* bbox_crs is set and is not EPSG:4326 the bbox is the reprojected bbox (a
\* cell of it under grid walking) and bbox-crs, when sent, is the EPSG URI
\* of that CRS; otherwise the bbox is the caller's and bbox-crs, when sent,
\* is the CRS84 literal; bbox-crs is sent exactly when omit_bbox_crs_param
\* is not set.
C19_BboxAndBboxCrs ==
    fpc = "loop" =>
      \A r \in BuiltRequests :
        /\ ("bbox-crs" \in DOMAIN r.params) <=> ~ fin.omit_bbox_crs_param
        /\ fin.quirks.values.bbox_crs \notin {"None", "EPSG:4326"} =>
             /\ CarriesBbox(r, Reprojected(fin.bbox, fin.quirks.values.bbox_crs))
             /\ ~ fin.omit_bbox_crs_param =>
                  r.params["bbox-crs"] = <<"http://www.opengis.net/def/crs/EPSG/0/",
                                           CrsCode(fin.quirks.values.bbox_crs)>>
        /\ fin.quirks.values.bbox_crs \in {"None", "EPSG:4326"} =>
             /\ CarriesBbox(r, fin.bbox)
             /\ ~ fin.omit_bbox_crs_param =>
                  r.params["bbox-crs"] = <<"http://www.opengis.net/def/crs/OGC/1.3/CRS84">>

\* a grid cell request in EPSG:28992 with bbox-crs
C19_Witness ==
    /\ fpc = "loop" /\ gpc = "batch"
    /\ ~ fin.omit_bbox_crs_param
    /\ \E c \in DOMAIN task :
         /\ task[c].st = "inflight"
         /\ task[c].params["bbox"] = CellBbox(<<155000, 463000, 155600, 463500>>, c)
         /\ task[c].params["bbox-crs"] = <<"http://www.opengis.net/def/crs/EPSG/0/", "28992">>

\* ---- apply_to_params ----

\* C20: apply_to_params returns a map that equals the input except that the
\* format parameter is set when the quirk requires one and a present limit
\* is replaced by min(limit, max_features_limit) when the ceiling is set;
\* the map passed in is not modified; and the limit of the request
\* _download_collection builds never exceeds the ceiling.
C20_ApplyToParams ==
    q_app.op = "apply" =>
      LET q == q_ret.ret.values
          in == q_app.params
          out == q_app.params_ret.ret
          fmt == IF q.require_format_param THEN {q.format_param_name} ELSE {}
      IN /\ q_app.params_ret.caller = in
         /\ DOMAIN out = DOMAIN in \cup fmt
         /\ \A k \in DOMAIN out :
              out[k] = IF k \in fmt THEN q.format_param_value
                       ELSE IF k = "limit" /\ q.max_features_limit # 0
                       THEN Min(in[k], q.max_features_limit)
                       ELSE in[k]
         /\ q.max_features_limit # 0 =>
              /\ "limit" \in DOMAIN out => out["limit"] <= q.max_features_limit
              /\ q_app.request["limit"] <= q.max_features_limit

\* a limit above the ceiling is clamped and the caller's map keeps it
C20_Witness ==
    /\ q_app.op = "apply"
    /\ q_ret.ret.values.max_features_limit = 100
    /\ q_app.params = [bbox |-> "1,2,3,4", limit |-> 150]
    /\ q_app.params_ret.ret = [bbox |-> "1,2,3,4", limit |-> 100]
    /\ q_app.params_ret.caller = [bbox |-> "1,2,3,4", limit |-> 150]
    /\ q_app.limit = 2000
    /\ q_app.request["limit"] = 100

\* ---- apply_to_url ----

\* C25: apply_to_url appends one "/" exactly when the quirk set requires a
\* trailing slash and the URL does not end with "/"; applying it twice gives
\* what applying it once gives; the base URL of a protocol constructed with
\* a quirk set that requires the slash ends with "/".
C25_TrailingSlash ==
    q_app.op = "apply" =>
      LET q == q_ret.ret.values
          u == q_app.url
          ends == u # <<>> /\ u[Len(u)] = "/"
      IN /\ q_app.url_ret = IF q.requires_trailing_slash /\ ~ ends THEN u \o <<"/">> ELSE u
         /\ q_app.url_twice = q_app.url_ret
         /\ q.requires_trailing_slash =>
              /\ q_app.base_url # <<>>
              /\ q_app.base_url[Len(q_app.base_url)] = "/"
              /\ q_app.base_url \in {u, u \o <<"/">>}

\* witness of C25: a quirk set that requires the slash was applied to a URL
\* without one, and to the result again
C25_Witness ==
    /\ q_app.op = "apply"
    /\ q_ret.ret.values.requires_trailing_slash
    /\ q_app.url = <<"https://example.com/api">>
    /\ q_app.url_ret = <<"https://example.com/api", "/">>
    /\ q_app.url_twice = <<"https://example.com/api", "/">>
    /\ q_app.base_url = <<"https://example.com/api", "/">>

\* ---- request headers ----

\* C21: every request of a download carries the caller's headers (the
\* client takes none from the caller) updated with the quirk set's
\* custom_headers.
C21_HeadersMerged ==
    fpc = "loop" =>
      \A k \in DOMAIN p_requests :
        p_requests[k].headers = ApplyToHeaders(fin.quirks, NoKwargs)

\* ---- degenerate surfaces ----

\* C22: a surface that resolves to fewer than 3 points, or refers to a
\* vertex outside the array, never aborts the decoding of its page: no
\* download ends with an error raised while a geometry is built, at LOD 0
\* and at the higher LODs.
C22_DegenerateSurfaceSkipped ==
    ~ (ppc = "raised" /\ pret = <<"geometry error">>)

----------------------------------------------------------------------------
(* Properties of the BAG3D layers *)

\* the vertices of a ring walked in the given order, placed by the transform
WalkedRing(vertices, order, t, lod_) ==
    [i \in 1..Len(order) |->
        [c \in UsedComponents(lod_) |->
            vertices[order[i] + 1][c] * t.scale[c] + t.translate[c]]]

\* the geometry a layer's row is to have: the solid of the child BuildingPart
\* at LOD X.Y for a layer lodXY, else the footprint of the parent Building
LayerGeometry(collection_id, vertices, t) ==
    CASE collection_id = "lod12" ->
            [kind |-> "MultiPolygon", coords |-> <<WalkedRing(vertices, <<1, 2, 0>>, t, "1.2")>>]
      [] collection_id = "lod22" ->
            [kind |-> "MultiPolygon", coords |-> <<WalkedRing(vertices, <<0, 1, 2>>, t, "2.2")>>]
      [] OTHER ->
            [kind |-> "Polygon", coords |-> WalkedRing(vertices, <<0, 1, 2>>, t, "0")]

\* the rows of the frame without the column _collection
WithoutCollection(gdf) ==
    [i \in 1..Len(gdf) |-> [k \in DOMAIN gdf[i] \ {"_collection"} |-> gdf[i][k]]]

\* the rows without the page they came from
WithoutSrc(gdf) ==
    [i \in 1..Len(gdf) |-> [k \in DOMAIN gdf[i] \ {"src"} |-> gdf[i][k]]]

\* C23: a layer lodXY is requested from the collection "pand" and its rows
\* carry the solid of the child BuildingPart at LOD X.Y; a CityJSON download
\* of another layer carries the footprint of the parent Building at LOD 0;
\* the rows collected for a layer carry the layer's own identifier in the
\* column _collection.
C23_LodLayerFromPand ==
    /\ (fpc = "loop" /\ ppc # "idle") =>
          /\ p_requests[1].kind = "items"
          /\ p_requests[1].target =
                (IF pin.collection_id \in {"lod12", "lod22"} THEN "pand"
                 ELSE pin.collection_id)
    /\ (fpc = "loop" /\ is_cityjson) =>
          \A i \in 1..Len(page_gdfs) :
             LET page == p_pages[page_gdfs[i].src]
             IN page_gdfs[i].geometry =
                  LayerGeometry(pin.collection_id,
                                FeatureOf(page, page_gdfs[i].identificatie).vertices,
                                page.metadata.transform)
    /\ \A i \in 1..Len(f_out) :
          f_out[i].ok =>
             WithoutCollection(RowsOfCollection(f_gdfs, fin.layers[i]))
                = WithoutSrc(f_out[i].gdf)

\* witness of C23: the layers pand and lod22 were both downloaded as CityJSON
\* and the frame returned holds a footprint under pand and a solid under lod22
C23_Witness ==
    /\ fpc = "done"
    /\ \E i, j \in 1..Len(fret) :
          /\ fret[i]["_collection"] = "pand"
          /\ "geometry" \in DOMAIN fret[i]
          /\ fret[i].geometry.kind = "Polygon"
          /\ fret[j]["_collection"] = "lod22"
          /\ fret[j].geometry.kind = "MultiPolygon"

----------------------------------------------------------------------------
(* Properties of the decoder *)

----------------------------------------------------------------------------
(* Properties of the monitor *)

\* whether the monitor is enabled when call i is made: the last enable or
\* disable before it decides, and a new monitor is enabled
EnabledAt(i) ==
    LET switches == {j \in 1..(i - 1) : monitor_calls[j].op \in {"enable", "disable"}}
    IN switches = {}
        \/ monitor_calls[CHOOSE j \in switches : \A k \in switches : k <= j].op = "enable"

\* the record calls for the key made while enabled since the last reset
CountedRecords(key) ==
    {i \in 1..Len(monitor_calls) :
        /\ monitor_calls[i].op = "record"
        /\ monitor_calls[i].key = key
        /\ EnabledAt(i)
        /\ \A j \in (i + 1)..Len(monitor_calls) : monitor_calls[j].op # "reset"}

\* applied_count of the key in the statistics; no entry counts as 0
AppliedCount(stats, key) == IF key \in DOMAIN stats THEN stats[key].applied_count ELSE 0

\* the statistics before call i
StatsBefore(i) == IF i = 1 THEN <<>> ELSE monitor_calls[i - 1].stats

\* C26: after any sequence of record, disable, enable and reset calls the
\* applied_count of every key is the number of record calls for it made
\* while enabled since the last reset, and a record call made while disabled
\* leaves the statistics as they were.
C26_CountsEnabledRecords ==
    /\ \A key \in MonitorKeys :
          AppliedCount(usage, key) = Cardinality(CountedRecords(key))
    /\ \A i \in 1..Len(monitor_calls) :
          (monitor_calls[i].op = "record" /\ ~ EnabledAt(i)) =>
              monitor_calls[i].stats = StatsBefore(i)

\* witness of C26: a key recorded once while enabled and once while
\* disabled, then the monitor enabled again
C26_Witness ==
    /\ Len(monitor_calls) = 4
    /\ monitor_calls[1].op = "record"
    /\ monitor_calls[2].op = "disable"
    /\ monitor_calls[3].op = "record"
    /\ monitor_calls[3].key = monitor_calls[1].key
    /\ monitor_calls[4].op = "enable"
    /\ usage[monitor_calls[1].key].applied_count = 1

----------------------------------------------------------------------------
(* Properties of the temporal resolution of a grid walk *)

\* the records the server holds for the cells that were downloaded, in cell order
AllServed ==
    LET F[c \in 0..gin.cells] ==
            IF c = 0 THEN <<>>
            ELSE IF task[c].st = "settled" /\ task[c].error = <<>>
                 THEN F[c - 1] \o task[c].served
                 ELSE F[c - 1]
    IN F[gin.cells]

\* the rows of a frame that carry the identifier
RowsWithId(gdf, id) ==
    Pick(gdf, {i \in 1..Len(gdf) : Val(gdf[i], "identificatie") = id})

\* C27: in a grid walk with the strategy latest the record returned for an
\* identifier is the one the strategy selects among the records of all
\* cells taken together.
C27_ResolvedAcrossCells ==
    (gpc = "done" /\ gin.temporal = T_latest /\ gin.limit = 0) =>
        \A id \in Ids :
            RowsWithId(gret, id)
                = RowsWithId(ApplyTemporalFilter(AllServed, gin.temporal, 0), id)

----------------------------------------------------------------------------
(* Properties of the temporal resolution whatever columns the frame has *)

\* C28: under latest, active or an ISO date, a frame with an identifier
\* field yields only records of the input and at most one record per
\* identifier value, whichever of the optional columns the frame has.
C28_AtMostOnePerId ==
    (/\ t_ret.op = "call"
     /\ t_ret.temporal.s \in {"latest", "active", "date"}
     /\ ~ NoIdField(t_gdf)) =>
        LET idf == IF "lokaal_id" \in Columns(t_gdf) THEN "lokaal_id" ELSE "identificatie"
            out == t_ret.ret
        IN /\ \A j \in 1..Len(out) : out[j] \in RecordSet(t_gdf)
           /\ \A i, j \in 1..Len(out) :
                i # j => Val(out[i], idf) # Val(out[j], idf)

----------------------------------------------------------------------------
(* Properties of the number of page requests *)

\* C29: with a cap N >= 1 a collection download sends at most N page
\* requests, whether the pages are GeoJSON or CityJSON.
C29_RequestsWithinCap ==
    (ppc # "idle" /\ pin.limit # 0) => Len(p_requests) <= pin.limit

----------------------------------------------------------------------------
(* Properties of the provider *)

\* C30: every download of a service that is delegated to get_features is
\* performed by a handler built from the URL configured for that service,
\* also when another service of the same protocol was downloaded before.
C30_HandlerOfOwnUrl ==
    \A i \in 1..Len(downloads) :
        downloads[i].did = "get_features" =>
            downloads[i].handler.base_url = services[downloads[i].service].url

====
